---- MODULE Spec2Model ----
(***************************************************************************)
(* Model of the MeetMap idea-graph engine: GraphManager (node store,       *)
(* similarity search, threshold clustering) and MeetMapService             *)
(* (extract_nodes pipeline, decide_placement).  The backend is described   *)
(* by the code listings of the design documents of the repository; every   *)
(* definition below names the listing it is translated from.  The last     *)
(* part models the frontend: WebSocketService and the React components.    *)
(***************************************************************************)
EXTENDS Integers, Sequences, FiniteSets, TLC

\* ------------------------------------------------------------------ bounds
MaxNodes == 2        \* idea nodes created over the lifetime of the service
MaxIdeas == 2        \* ideas returned by one extraction
MaxStored == 3       \* idea nodes stored by direct calls of add_node under a root
MaxSameUser == 3     \* idea nodes of the chunks that one user sends concurrently
MaxTwoUsers == 3     \* idea nodes of the chunks that two users send concurrently
MaxSockets == 8      \* WebSocket objects created by one WebSocketService
MaxConnectCalls == 2 \* calls of connect() made by the application
MaxDiffLen == 2      \* nodes in one new_nodes message

\* --------------------------------------------------------- program constants
TOP_K_DEFAULT == 5
ThresholdNum == 65   \* CLUSTER_SIMILARITY_THRESHOLD = 0.65 = ThresholdNum / ThresholdDen
ThresholdDen == 100

\* ------------------------------------------------------------- input domains
None == "None"
Users == {"u1", "u2"}
Tenants == Users \cup {None}
Runs == {"r1", "r2"}
Embeddings == {<<1, 0>>, <<0, 1>>, <<1, 1>>}
EmbedError == <<>>               \* embedding_model.encode raised
ZeroVec == <<0, 0>>
Decisions == {"continuation", "branch", "resolution"}
GhostId == "node_x"              \* an id the oracle invents

VARIABLES
  nodes,             \* GraphManager.nodes : insertion-ordered dict, as a sequence of GraphNode
  cluster_centroids, \* GraphManager.cluster_centroids : cluster_id -> centroid
  cluster_members,   \* GraphManager.cluster_members : cluster_id -> [node ids]
  next_cluster_id,   \* GraphManager.next_cluster_id
  node_counter,      \* MeetMapService node id counter (node_1, node_2, ...)
  runs,              \* in-flight extract_nodes coroutines, one per request slot
  active,            \* the coroutine holding the event loop (None at an await)
  rootReturned,      \* history: per tenant, the root ids returned by direct get-or-create-root
                     \* calls and the number of such calls (counted up to 2)
  add_failed,        \* history: some direct add_node call raised ValueError
  delivered,         \* history: what extract_nodes has returned to its callers so far
  decided,           \* the last direct decide_placement call and its result
  socket,            \* WebSocketService.socket : the WebSocket it refers to (NoSocket = null)
  sockets,           \* the readyState of every WebSocket the service has created
  reconnectAttempts, \* WebSocketService.reconnectAttempts
  timers,            \* pending setTimeout callbacks of onclose : delay -> how many
  wsSeen,            \* history: calls of the service and what it did since
  dashboardNodes,    \* Dashboard state "nodes"
  dashboardEdges,    \* Dashboard state "edges"
  clickedNodeId,     \* NodeMap state
  clickState,        \* NodeMap state : 0 = normal, 1 = downward path, 2 = upward path
  downwardPathNodes, \* NodeMap state : the node whose downward path is highlighted
  upwardPathNodes,   \* NodeMap state : the node whose upward path is highlighted
  pathRequests,      \* calls of api.getDownwardPath / getUpwardPath not yet answered
  bubble,            \* NodeHoverBubble : its nodeId prop and its state
  summaryRequests,   \* calls of api.getNodeSummary not yet answered
  bubbleSeen         \* history: what the last step of the bubble did

backend == <<nodes, cluster_centroids, cluster_members, next_cluster_id,
             node_counter, runs, active, rootReturned, add_failed, delivered, decided>>

wsVars == <<socket, sockets, reconnectAttempts, timers, wsSeen>>

dashVars == <<dashboardNodes, dashboardEdges>>

mapVars == <<clickedNodeId, clickState, downwardPathNodes, upwardPathNodes, pathRequests>>

bubbleVars == <<bubble, summaryRequests, bubbleSeen>>

frontend == <<wsVars, dashVars, mapVars, bubbleVars>>

vars == <<backend, frontend>>

\* =================================================================== helpers
root_id == "root"

UserRootId(user_id) == "root_" \o user_id

\* faulty variant: every idea node gets the same id
NodeId_fixed(n) == "node_1"

NodeId(n) == "node_" \o ToString(n)

Ids(ns) == {ns[i].id : i \in 1..Len(ns)}

IndexOf(ns, id) == CHOOSE i \in 1..Len(ns) : ns[i].id = id

HasNode(ns, id) == id \in Ids(ns)

get_node(ns, id) == ns[IndexOf(ns, id)]

Dot(a, b) == a[1] * b[1] + a[2] * b[2]

\* cosine similarity dot(a,b) / (||a|| * ||b||), kept exact as the pair
\* n / sqrt(d2); all embeddings have non-negative components, so n >= 0.
\* A zero vector (the placeholder root) has similarity 0.
cosine_similarity(a, b) ==
  IF Dot(a, a) = 0 \/ Dot(b, b) = 0
  THEN [n |-> 0, d2 |-> 1]
  ELSE [n |-> Dot(a, b), d2 |-> Dot(a, a) * Dot(b, b)]

SimGreater(x, y) == x.n * x.n * y.d2 > y.n * y.n * x.d2

SimAtLeastThreshold(x) ==
  x.n * x.n * ThresholdDen * ThresholdDen >= ThresholdNum * ThresholdNum * x.d2

\* ============================================================== GraphManager
NoCluster == -1

GraphNode(id, embedding, parent_id, depth, user_id, is_root, owner) ==
  [id |-> id, embedding |-> embedding, parent_id |-> parent_id,
   children_ids |-> <<>>, depth |-> depth, user_id |-> user_id,
   is_root |-> is_root, cluster_id |-> NoCluster,
   owner |-> owner]   \* owner: history field, the tenant whose request created the node

\* self.nodes[id] = node : replaces in place when the key exists, appends otherwise
DictSet(ns, node) ==
  IF HasNode(ns, node.id)
  THEN [ns EXCEPT ![IndexOf(ns, node.id)] = node]
  ELSE Append(ns, node)

\* faulty variant: the listing before user scoping was added
get_all_nodes_unscoped(ns, user_id) == ns

get_all_nodes(ns, user_id) ==
  IF user_id = None
  THEN ns
  ELSE SelectSeq(ns, LAMBDA node :
         \/ node.user_id = user_id
         \/ (node.id = root_id /\ node.user_id = user_id))

\* faulty variant: the listing before user scoping was added
get_all_nodes_except_root_unscoped(ns, user_id) ==
  SelectSeq(ns, LAMBDA node : node.id # root_id)

get_all_nodes_except_root(ns, user_id) ==
  IF user_id = None
  THEN SelectSeq(ns, LAMBDA node : node.id # root_id)
  ELSE SelectSeq(ns, LAMBDA node : node.id # root_id /\ node.user_id = user_id)

\* faulty variant: the lookup through self.root_id that the root fix replaced
get_root_by_root_id(ns, user_id) ==
  IF user_id = None
  THEN (IF HasNode(ns, root_id) THEN root_id ELSE None)
  ELSE (IF HasNode(ns, root_id) /\ ns[IndexOf(ns, root_id)].user_id = user_id
        THEN root_id ELSE None)

\* returns the root's id, or None when the tenant has no root yet
get_root(ns, user_id) ==
  IF user_id = None
  THEN (IF HasNode(ns, root_id) THEN root_id ELSE None)
  ELSE (IF HasNode(ns, UserRootId(user_id)) THEN UserRootId(user_id) ELSE None)

_initialize_root(ns, user_id) ==
  IF user_id # None
  THEN DictSet(ns, GraphNode(UserRootId(user_id), ZeroVec, None, 0, user_id, TRUE, user_id))
  ELSE DictSet(ns, GraphNode(root_id, ZeroVec, None, 0, None, TRUE, None))

\* faulty variant: among equal similarities the later node comes first
RECURSIVE InsertDesc_later_first(_, _)
InsertDesc_later_first(sorted, x) ==
  IF sorted = <<>> THEN <<x>>
  ELSE IF ~SimGreater(Head(sorted).similarity, x.similarity)
       THEN <<x>> \o sorted
       ELSE <<Head(sorted)>> \o InsertDesc_later_first(Tail(sorted), x)

\* stable sort by similarity, descending (list.sort(key=..., reverse=True))
RECURSIVE InsertDesc(_, _)
InsertDesc(sorted, x) ==
  IF sorted = <<>> THEN <<x>>
  ELSE IF SimGreater(x.similarity, Head(sorted).similarity)
       THEN <<x>> \o sorted
       ELSE <<Head(sorted)>> \o InsertDesc(Tail(sorted), x)

RECURSIVE SortDesc(_)
SortDesc(xs) ==
  IF xs = <<>> THEN <<>>
  ELSE InsertDesc(SortDesc(SubSeq(xs, 1, Len(xs) - 1)), xs[Len(xs)])

Min(a, b) == IF a < b THEN a ELSE b

find_globally_similar_nodes(ns, candidate_embedding, user_id, k) ==
  LET all_nodes == get_all_nodes_except_root(ns, user_id)
      sims == [i \in 1..Len(all_nodes) |->
                 [id |-> all_nodes[i].id,
                  similarity |-> cosine_similarity(candidate_embedding, all_nodes[i].embedding)]]
      sorted == SortDesc(sims)
  IN SubSeq(sorted, 1, Min(k, Len(sorted)))

\* ---------------------------------------------------------------- clustering
\* a centroid is the exact rational vector num / den

Centroid(embedding) == [num |-> embedding, den |-> 1]

\* faulty variant: the centroid moves halfway to the new embedding
_update_centroid_halfway(old, embedding, n) ==
  [num |-> [i \in 1..2 |-> old.num[i] + embedding[i] * old.den],
   den |-> old.den * 2]

\* new_centroid = (old_centroid * (n - 1) + new_embedding) / n
_update_centroid(old, embedding, n) ==
  [num |-> [i \in 1..2 |-> old.num[i] * (n - 1) + embedding[i] * old.den],
   den |-> old.den * n]

\* the loop "if similarity > best_similarity" over the centroids in dict order:
\* the first cluster with the maximal similarity
\* faulty variant: a later centroid of equal similarity replaces the best one
BestCluster_last_wins(cc, embedding) ==
  CHOOSE c \in DOMAIN cc :
    /\ \A d \in DOMAIN cc :
         ~SimGreater(cosine_similarity(embedding, cc[d].num),
                     cosine_similarity(embedding, cc[c].num))
    /\ \A d \in DOMAIN cc :
         d > c => SimGreater(cosine_similarity(embedding, cc[c].num),
                             cosine_similarity(embedding, cc[d].num))

BestCluster(cc, embedding) ==
  CHOOSE c \in DOMAIN cc :
    /\ \A d \in DOMAIN cc :
         ~SimGreater(cosine_similarity(embedding, cc[d].num),
                     cosine_similarity(embedding, cc[c].num))
    /\ \A d \in DOMAIN cc :
         d < c => SimGreater(cosine_similarity(embedding, cc[c].num),
                             cosine_similarity(embedding, cc[d].num))

\* faulty variant: joining a cluster replaces its member list
assign_cluster_replace(g, node_id, embedding) ==
  LET stamp(c) == [g.nodes EXCEPT ![IndexOf(g.nodes, node_id)].cluster_id = c]
      fresh == [nodes |-> stamp(g.next),
                cc |-> [c \in DOMAIN g.cc \cup {g.next} |->
                          IF c = g.next THEN Centroid(embedding) ELSE g.cc[c]],
                cm |-> [c \in DOMAIN g.cm \cup {g.next} |->
                          IF c = g.next THEN <<node_id>> ELSE g.cm[c]],
                next |-> g.next + 1]
  IN IF DOMAIN g.cc = {}
     THEN fresh
     ELSE LET best == BestCluster(g.cc, embedding)
              best_similarity == cosine_similarity(embedding, g.cc[best].num)
          IN IF SimAtLeastThreshold(best_similarity)
             THEN [nodes |-> stamp(best),
                   cc |-> [g.cc EXCEPT ![best] =
                             _update_centroid(@, embedding, Len(g.cm[best]) + 1)],
                   cm |-> [g.cm EXCEPT ![best] = <<node_id>>],
                   next |-> g.next]
             ELSE fresh

\* faulty variant: the cluster id is not stamped on a node that joins an existing cluster
assign_cluster_unstamped(g, node_id, embedding) ==
  LET stamp(c) == [g.nodes EXCEPT ![IndexOf(g.nodes, node_id)].cluster_id = c]
      fresh == [nodes |-> stamp(g.next),
                cc |-> [c \in DOMAIN g.cc \cup {g.next} |->
                          IF c = g.next THEN Centroid(embedding) ELSE g.cc[c]],
                cm |-> [c \in DOMAIN g.cm \cup {g.next} |->
                          IF c = g.next THEN <<node_id>> ELSE g.cm[c]],
                next |-> g.next + 1]
  IN IF DOMAIN g.cc = {}
     THEN fresh
     ELSE LET best == BestCluster(g.cc, embedding)
              best_similarity == cosine_similarity(embedding, g.cc[best].num)
          IN IF SimAtLeastThreshold(best_similarity)
             THEN [nodes |-> g.nodes,
                   cc |-> [g.cc EXCEPT ![best] =
                             _update_centroid(@, embedding, Len(g.cm[best]) + 1)],
                   cm |-> [g.cm EXCEPT ![best] = Append(@, node_id)],
                   next |-> g.next]
             ELSE fresh

\* g is the GraphManager state [nodes, cc, cm, next]; returns the new state
\* with node_id assigned to a cluster and the id stamped on its metadata
\* faulty variant: a node joining a cluster is re-parented to the cluster's
\* first member
assign_cluster_regroup(g, node_id, embedding) ==
  LET stamp(c) == [g.nodes EXCEPT ![IndexOf(g.nodes, node_id)].cluster_id = c]
      fresh == [nodes |-> stamp(g.next),
                cc |-> [c \in DOMAIN g.cc \cup {g.next} |->
                          IF c = g.next THEN Centroid(embedding) ELSE g.cc[c]],
                cm |-> [c \in DOMAIN g.cm \cup {g.next} |->
                          IF c = g.next THEN <<node_id>> ELSE g.cm[c]],
                next |-> g.next + 1]
  IN IF DOMAIN g.cc = {}
     THEN fresh
     ELSE LET best == BestCluster(g.cc, embedding)
              best_similarity == cosine_similarity(embedding, g.cc[best].num)
          IN IF SimAtLeastThreshold(best_similarity)
             THEN [nodes |-> [stamp(best) EXCEPT
                                ![IndexOf(g.nodes, node_id)].parent_id = g.cm[best][1]],
                   cc |-> [g.cc EXCEPT ![best] =
                             _update_centroid(@, embedding, Len(g.cm[best]) + 1)],
                   cm |-> [g.cm EXCEPT ![best] = Append(@, node_id)],
                   next |-> g.next]
             ELSE fresh

assign_cluster(g, node_id, embedding) ==
  LET stamp(c) == [g.nodes EXCEPT ![IndexOf(g.nodes, node_id)].cluster_id = c]
      fresh == [nodes |-> stamp(g.next),
                cc |-> [c \in DOMAIN g.cc \cup {g.next} |->
                          IF c = g.next THEN Centroid(embedding) ELSE g.cc[c]],
                cm |-> [c \in DOMAIN g.cm \cup {g.next} |->
                          IF c = g.next THEN <<node_id>> ELSE g.cm[c]],
                next |-> g.next + 1]
  IN IF DOMAIN g.cc = {}
     THEN fresh
     ELSE LET best == BestCluster(g.cc, embedding)
              best_similarity == cosine_similarity(embedding, g.cc[best].num)
          IN IF SimAtLeastThreshold(best_similarity)
             THEN [nodes |-> stamp(best),
                   cc |-> [g.cc EXCEPT ![best] =
                             _update_centroid(@, embedding, Len(g.cm[best]) + 1)],
                   cm |-> [g.cm EXCEPT ![best] = Append(@, node_id)],
                   next |-> g.next]
             ELSE fresh

\* faulty variant: depth copied from the parent
add_node_same_depth(g, node_id, embedding, parent_id, user_id, owner) ==
  IF ~HasNode(g.nodes, parent_id)
  THEN [ok |-> FALSE, g |-> g]
  ELSE LET parent == get_node(g.nodes, parent_id)
           node == GraphNode(node_id, embedding, parent_id, parent.depth,
                             user_id, FALSE, owner)
           stored == DictSet(g.nodes, node)
           linked == [stored EXCEPT ![IndexOf(stored, parent_id)].children_ids =
                        Append(@, node_id)]
       IN [ok |-> TRUE,
           g |-> assign_cluster([g EXCEPT !.nodes = linked], node_id, embedding)]

\* faulty variant: the parent's children list is not updated
add_node_unlinked(g, node_id, embedding, parent_id, user_id, owner) ==
  IF ~HasNode(g.nodes, parent_id)
  THEN [ok |-> FALSE, g |-> g]
  ELSE LET parent == get_node(g.nodes, parent_id)
           node == GraphNode(node_id, embedding, parent_id, parent.depth + 1,
                             user_id, FALSE, owner)
           stored == DictSet(g.nodes, node)
       IN [ok |-> TRUE,
           g |-> assign_cluster([g EXCEPT !.nodes = stored], node_id, embedding)]

\* add_node: [ok |-> FALSE] models "raise ValueError('Parent does not exist')"
add_node(g, node_id, embedding, parent_id, user_id, owner) ==
  IF ~HasNode(g.nodes, parent_id)
  THEN [ok |-> FALSE, g |-> g]
  ELSE LET parent == get_node(g.nodes, parent_id)
           node == GraphNode(node_id, embedding, parent_id, parent.depth + 1,
                             user_id, FALSE, owner)
           stored == DictSet(g.nodes, node)
           linked == [stored EXCEPT ![IndexOf(stored, parent_id)].children_ids =
                        Append(@, node_id)]
       IN [ok |-> TRUE,
           g |-> assign_cluster([g EXCEPT !.nodes = linked], node_id, embedding)]

\* GraphManager() : only the global root, no clusters
NewGraph ==
  [nodes |-> _initialize_root(<<>>, None),
   cc |-> [c \in {} |-> Centroid(ZeroVec)],
   cm |-> [c \in {} |-> <<>>],
   next |-> 0]

\* ============================================================ MeetMapService
\* faulty variant: the branch before user-specific roots, always the global root
GetOrCreateRoot_global(ns, user_id) == [nodes |-> ns, parent_id |-> root_id]

\* the "no similar nodes" branch of extract_nodes: get or create the root
GetOrCreateRoot(ns, user_id) ==
  IF user_id # None
  THEN LET created == IF get_root(ns, user_id) = None
                      THEN _initialize_root(ns, user_id)
                      ELSE ns
           user_root == get_root(created, user_id)
       IN [nodes |-> created,
           parent_id |-> IF user_root # None THEN user_root ELSE root_id]
  ELSE [nodes |-> ns, parent_id |-> root_id]

\* faulty variant: the fallback before the root fix, always the global root
FallbackRootId_global(ns, user_id) == root_id

\* an oracle answer: ok = FALSE is an API failure, a timeout or an unparsable reply
OracleFailure == [ok |-> FALSE, decision |-> "branch", target_node_id |-> None]

OracleAnswers(ns) ==
  {OracleFailure} \cup
  [ok : {TRUE}, decision : Decisions, target_node_id : Ids(ns) \cup {GhostId}]

\* root used by every fallback of decide_placement
FallbackRootId(ns, user_id) ==
  IF user_id # None
  THEN (IF get_root(ns, user_id) # None THEN get_root(ns, user_id) ELSE root_id)
  ELSE root_id

\* faulty variant: an invalid target falls back to the most similar node's parent
decide_placement_parent_fallback(ns, similar, user_id, answer) ==
  LET fallback_root_id == FallbackRootId(ns, user_id)
      OrRoot(pid) == IF pid # None THEN pid ELSE fallback_root_id
      most_similar == get_node(ns, similar[1])
      InSimilar(id) == \E i \in 1..Len(similar) : similar[i] = id
  IN IF ~answer.ok \/ ~InSimilar(answer.target_node_id)
     THEN [raised |-> FALSE, parent_id |-> OrRoot(most_similar.parent_id)]
     ELSE LET target_node == get_node(ns, answer.target_node_id)
              parent_id == IF answer.decision \in {"continuation", "resolution"}
                           THEN target_node.id
                           ELSE OrRoot(target_node.parent_id)
          IN [raised |-> FALSE, parent_id |-> parent_id]

\* faulty variant: an oracle failure is not caught
decide_placement_uncaught(ns, similar, user_id, answer) ==
  LET fallback_root_id == FallbackRootId(ns, user_id)
      OrRoot(pid) == IF pid # None THEN pid ELSE fallback_root_id
      most_similar == get_node(ns, similar[1])
      InSimilar(id) == \E i \in 1..Len(similar) : similar[i] = id
  IN IF ~answer.ok
     THEN [raised |-> TRUE, parent_id |-> None]
     ELSE LET target_node == IF InSimilar(answer.target_node_id)
                             THEN get_node(ns, answer.target_node_id)
                             ELSE most_similar
              parent_id == IF answer.decision \in {"continuation", "resolution"}
                           THEN target_node.id
                           ELSE OrRoot(target_node.parent_id)
          IN [raised |-> FALSE, parent_id |-> parent_id]

\* faulty variant: a parent_id suggested in the reply is taken over
decide_placement_suggested(ns, similar, user_id, answer) ==
  LET fallback_root_id == FallbackRootId(ns, user_id)
      OrRoot(pid) == IF pid # None THEN pid ELSE fallback_root_id
      most_similar == get_node(ns, similar[1])
      InSimilar(id) == \E i \in 1..Len(similar) : similar[i] = id
      suggested == IF "parent_id" \in DOMAIN answer THEN answer.parent_id ELSE None
  IN IF ~answer.ok
     THEN [raised |-> FALSE, parent_id |-> OrRoot(most_similar.parent_id)]
     ELSE LET target_node == IF InSimilar(answer.target_node_id)
                             THEN get_node(ns, answer.target_node_id)
                             ELSE most_similar
              parent_id == IF suggested # None /\ HasNode(ns, suggested)
                           THEN suggested
                           ELSE IF answer.decision \in {"continuation", "resolution"}
                                THEN target_node.id
                                ELSE OrRoot(target_node.parent_id)
          IN [raised |-> FALSE, parent_id |-> parent_id]

\* faulty variant: the oracle's target is used as it came, without validation
decide_placement_unvalidated(ns, similar, user_id, answer) ==
  LET fallback_root_id == FallbackRootId(ns, user_id)
      OrRoot(pid) == IF pid # None THEN pid ELSE fallback_root_id
      most_similar == get_node(ns, similar[1])
      InSimilar(id) == \E i \in 1..Len(similar) : similar[i] = id
  IN IF ~answer.ok
     THEN [raised |-> FALSE, parent_id |-> OrRoot(most_similar.parent_id)]
     ELSE LET target_node == IF InSimilar(answer.target_node_id)
                             THEN get_node(ns, answer.target_node_id)
                             ELSE most_similar
              parent_id == IF answer.decision \in {"continuation", "resolution"}
                           THEN answer.target_node_id
                           ELSE OrRoot(target_node.parent_id)
          IN [raised |-> FALSE, parent_id |-> parent_id]

\* decide_placement after the oracle call has completed; similar is the list of
\* candidate ids, most similar first.  raised = TRUE would be an exception
\* leaving decide_placement.
decide_placement(ns, similar, user_id, answer) ==
  LET fallback_root_id == FallbackRootId(ns, user_id)
      OrRoot(pid) == IF pid # None THEN pid ELSE fallback_root_id
      most_similar == get_node(ns, similar[1])
      InSimilar(id) == \E i \in 1..Len(similar) : similar[i] = id
  IN IF ~answer.ok
     THEN \* API failure -> most similar node's parent
          [raised |-> FALSE, parent_id |-> OrRoot(most_similar.parent_id)]
     ELSE LET \* invalid target_node_id -> use first similar node
              target_node == IF InSimilar(answer.target_node_id)
                             THEN get_node(ns, answer.target_node_id)
                             ELSE most_similar
              parent_id == IF answer.decision \in {"continuation", "resolution"}
                           THEN target_node.id
                           ELSE OrRoot(target_node.parent_id)
          IN IF HasNode(ns, parent_id)
             THEN [raised |-> FALSE, parent_id |-> parent_id]
             ELSE \* invalid parent_id -> target's parent or root
                  [raised |-> FALSE,
                   parent_id |-> IF target_node.parent_id # None
                                    /\ HasNode(ns, target_node.parent_id)
                                 THEN target_node.parent_id
                                 ELSE fallback_root_id]

\* ------------------------------------------------------------------- state
IdleRun == [pc |-> "idle", user_id |-> None, ideas |-> <<>>, similar |-> <<>>,
            answer |-> OracleFailure, new_nodes |-> <<>>]

\* stage A of add_node on its own: the node is created and linked to its
\* parent, before the cluster assignment
create_and_link(ns, node_id, embedding, parent_id, user_id, owner) ==
  LET parent == get_node(ns, parent_id)
      node == GraphNode(node_id, embedding, parent_id, parent.depth + 1,
                        user_id, FALSE, owner)
      stored == DictSet(ns, node)
  IN [stored EXCEPT ![IndexOf(stored, parent_id)].children_ids = Append(@, node_id)]

G == [nodes |-> nodes, cc |-> cluster_centroids, cm |-> cluster_members,
      next |-> next_cluster_id]

SetGraph(g) ==
  /\ nodes' = g.nodes
  /\ cluster_centroids' = g.cc
  /\ cluster_members' = g.cm
  /\ next_cluster_id' = g.next

\* no response has been returned yet: roots = tenants whose root a response has
\* carried, failing = runs that met a partial failure, last = the last response
NoResponse == [status |-> "none", user_id |-> None, nodes |-> <<>>, edges |-> <<>>,
               after_failure |-> FALSE]

\* the nodes and edges of all the responses a tenant has received
NothingAnnounced == [t \in Tenants |-> [nodes |-> <<>>, edges |-> <<>>]]

NothingDelivered == [roots |-> {}, failing |-> {}, last |-> NoResponse,
                     announced |-> NothingAnnounced]

NotDecided == [called |-> FALSE]

\* this.socket = null
NoSocket == 0

maxReconnectAttempts == 5

\* the delays 1000 * reconnectAttempts that onclose can pass to setTimeout
Delays == {1000 * n : n \in 1..maxReconnectAttempts}

NoTimers == [d \in Delays |-> 0]

\* disconnected: disconnect() was called and the application has not called
\* connect() since; calls: connect() calls of the application; attempts:
\* connect() calls made by reconnect timers since the last onopen; emitted:
\* how often the last message of the server was emitted to the listeners
NothingSeen == [disconnected |-> FALSE, calls |-> 0, attempts |-> 0, emitted |-> 0]

\* whether the last step of the bubble handled the answer to a request, and
\* the node that request was made for
NoAnswer == [answered |-> FALSE, nodeId |-> None]

\* no NodeHoverBubble is rendered
Unmounted == [mounted |-> FALSE, nodeId |-> None, summary |-> None,
              loading |-> FALSE, error |-> None]

\* the histories of the API boundary are left alone
Quiet == UNCHANGED <<delivered, decided, frontend>>

Init ==
  /\ nodes = NewGraph.nodes
  /\ cluster_centroids = NewGraph.cc
  /\ cluster_members = NewGraph.cm
  /\ next_cluster_id = NewGraph.next
  /\ node_counter = 0
  /\ runs = [r \in Runs |-> IdleRun]
  /\ active = None
  /\ rootReturned = [t \in Tenants |-> [ids |-> {}, calls |-> 0]]
  /\ add_failed = FALSE
  /\ delivered = NothingDelivered
  /\ decided = NotDecided
  /\ socket = NoSocket
  /\ sockets = <<>>
  /\ reconnectAttempts = 0
  /\ timers = NoTimers
  /\ wsSeen = NothingSeen
  /\ dashboardNodes = <<>>
  /\ dashboardEdges = <<>>
  /\ clickedNodeId = None
  /\ clickState = 0
  /\ downwardPathNodes = None
  /\ upwardPathNodes = None
  /\ pathRequests = {}
  /\ bubble = Unmounted
  /\ summaryRequests = {}
  /\ bubbleSeen = NoAnswer

\* ideas still to be turned into nodes by the runs in flight
RECURSIVE PendingOf(_)
PendingOf(rs) ==
  IF rs = {} THEN 0
  ELSE LET r == CHOOSE x \in rs : TRUE
       IN Len(runs[r].ideas) + PendingOf(rs \ {r})

Pending == PendingOf(Runs)

\* nodes that may still be created within MaxNodes
Room == MaxNodes - node_counter - Pending

\* the idea lists an extraction may return: up to MaxIdeas ideas, n at most
IdeaListsUpTo(n) ==
  UNION {[1..k -> Embeddings \cup {EmbedError}] : k \in 0..Min(MaxIdeas, n)}

\* POST /api/transcript arrives: extract_nodes starts and awaits _extract_ideas
StartRun(r, user_id) ==
  /\ active = None
  /\ runs[r].pc = "idle"
  /\ runs' = [runs EXCEPT ![r] = [IdleRun EXCEPT !.pc = "extracting", !.user_id = user_id]]
  /\ UNCHANGED <<nodes, cluster_centroids, cluster_members, next_cluster_id,
                 node_counter, active, rootReturned, add_failed>>

\* _extract_ideas returns (an extractor failure returns the empty list)
ExtractReturn(r, ideas) ==
  /\ active = None
  /\ runs[r].pc = "extracting"
  /\ node_counter + Pending + Len(ideas) <= MaxNodes
  /\ runs' = [runs EXCEPT ![r].pc = "loop", ![r].ideas = ideas]
  /\ active' = r
  /\ UNCHANGED <<nodes, cluster_centroids, cluster_members, next_cluster_id,
                 node_counter, rootReturned, add_failed>>

\* faulty variant: the embedding error leaves extract_nodes as an exception
SkipIdea_abort(r) ==
  /\ active = r
  /\ runs[r].pc = "loop"
  /\ runs[r].ideas # <<>>
  /\ Head(runs[r].ideas) = EmbedError
  /\ runs' = [runs EXCEPT ![r] = IdleRun]
  /\ active' = None
  /\ UNCHANGED <<nodes, cluster_centroids, cluster_members, next_cluster_id,
                 node_counter, rootReturned, add_failed>>

\* faulty variant: the embedding error drops the rest of the chunk's ideas
SkipIdea_drop_rest(r) ==
  /\ active = r
  /\ runs[r].pc = "loop"
  /\ runs[r].ideas # <<>>
  /\ Head(runs[r].ideas) = EmbedError
  /\ runs' = [runs EXCEPT ![r].ideas = <<>>, ![r].similar = <<>>,
                          ![r].answer = OracleFailure]
  /\ UNCHANGED <<nodes, cluster_centroids, cluster_members, next_cluster_id,
                 node_counter, active, rootReturned, add_failed>>

\* the embedding call fails for the idea: the idea is skipped
SkipIdea(r) ==
  /\ active = r
  /\ runs[r].pc = "loop"
  /\ runs[r].ideas # <<>>
  /\ Head(runs[r].ideas) = EmbedError
  /\ runs' = [runs EXCEPT ![r].ideas = Tail(@), ![r].similar = <<>>,
                          ![r].answer = OracleFailure]
  /\ UNCHANGED <<nodes, cluster_centroids, cluster_members, next_cluster_id,
                 node_counter, active, rootReturned, add_failed>>

\* faulty variant: the search misses the nodes this call has created itself
Similar_without_own(r) ==
  LET found == find_globally_similar_nodes(
                 SelectSeq(nodes, LAMBDA node :
                   \A i \in 1..Len(runs[r].new_nodes) : node.id # runs[r].new_nodes[i]),
                 Head(runs[r].ideas), runs[r].user_id, TOP_K_DEFAULT)
  IN [i \in 1..Len(found) |-> found[i].id]

Similar(r) ==
  LET found == find_globally_similar_nodes(nodes, Head(runs[r].ideas),
                                           runs[r].user_id, TOP_K_DEFAULT)
  IN [i \in 1..Len(found) |-> found[i].id]

\* faulty variant: the state stays locked while the oracle call is pending
SearchAndAwait_locked(r) ==
  /\ active = r
  /\ runs[r].pc = "loop"
  /\ runs[r].ideas # <<>>
  /\ Head(runs[r].ideas) # EmbedError
  /\ Similar(r) # <<>>
  /\ runs' = [runs EXCEPT ![r].pc = "awaiting_oracle", ![r].similar = Similar(r),
                          ![r].answer = OracleFailure]
  /\ UNCHANGED <<nodes, cluster_centroids, cluster_members, next_cluster_id,
                 node_counter, active, rootReturned, add_failed>>

\* similar nodes exist: the coroutine awaits decide_placement's oracle call
SearchAndAwait(r) ==
  /\ active = r
  /\ runs[r].pc = "loop"
  /\ runs[r].ideas # <<>>
  /\ Head(runs[r].ideas) # EmbedError
  /\ Similar(r) # <<>>
  /\ runs' = [runs EXCEPT ![r].pc = "awaiting_oracle", ![r].similar = Similar(r),
                          ![r].answer = OracleFailure]
  /\ active' = None
  /\ UNCHANGED <<nodes, cluster_centroids, cluster_members, next_cluster_id,
                 node_counter, rootReturned, add_failed>>

\* no similar nodes: the node goes under the tenant's root, created on demand
PlaceUnderRoot(r) ==
  /\ active = r
  /\ runs[r].pc = "loop"
  /\ runs[r].ideas # <<>>
  /\ Head(runs[r].ideas) # EmbedError
  /\ Similar(r) = <<>>
  /\ LET u == runs[r].user_id
         rooted == GetOrCreateRoot(nodes, u)
         node_id == NodeId(node_counter + 1)
         res == add_node([G EXCEPT !.nodes = rooted.nodes], node_id,
                         Head(runs[r].ideas), rooted.parent_id, u, u)
     IN /\ SetGraph(res.g)
        /\ node_counter' = node_counter + 1
        /\ runs' = [runs EXCEPT ![r].ideas = Tail(@), ![r].similar = <<>>,
                                ![r].answer = OracleFailure,
                                ![r].new_nodes = IF res.ok THEN Append(@, node_id) ELSE @]
  /\ UNCHANGED <<active, rootReturned, add_failed>>

\* the oracle call completes (or fails): the coroutine resumes inside decide_placement
OracleReturn(r, answer) ==
  /\ active = None
  /\ runs[r].pc = "awaiting_oracle"
  /\ answer \in OracleAnswers(nodes)
  /\ runs' = [runs EXCEPT ![r].pc = "deciding", ![r].answer = answer]
  /\ active' = r
  /\ UNCHANGED <<nodes, cluster_centroids, cluster_members, next_cluster_id,
                 node_counter, rootReturned, add_failed>>

\* decide_placement returns its parent_id and the node is added under it
PlaceDecided(r) ==
  /\ active = r
  /\ runs[r].pc = "deciding"
  /\ LET u == runs[r].user_id
         d == decide_placement(nodes, runs[r].similar, u, runs[r].answer)
         node_id == NodeId(node_counter + 1)
         res == add_node(G, node_id, Head(runs[r].ideas), d.parent_id, u, u)
     IN IF d.raised
        THEN \* the exception ends the request
             /\ runs' = [runs EXCEPT ![r] = IdleRun]
             /\ active' = None
             /\ UNCHANGED <<nodes, cluster_centroids, cluster_members,
                            next_cluster_id, node_counter>>
        ELSE /\ SetGraph(res.g)
             /\ node_counter' = node_counter + 1
             /\ runs' = [runs EXCEPT ![r].pc = "loop", ![r].ideas = Tail(@),
                                     ![r].new_nodes =
                                        IF res.ok THEN Append(@, node_id) ELSE @]
             /\ UNCHANGED active
  /\ UNCHANGED <<rootReturned, add_failed>>

\* all ideas handled: extract_nodes returns its nodes and edges
Finish(r) ==
  /\ active = r
  /\ runs[r].pc = "loop"
  /\ runs[r].ideas = <<>>
  /\ runs' = [runs EXCEPT ![r] = IdleRun]
  /\ active' = None
  /\ UNCHANGED <<nodes, cluster_centroids, cluster_members, next_cluster_id,
                 node_counter, rootReturned, add_failed>>

\* graph reset between requests: clears all nodes, resets clusters
Reset ==
  /\ active = None
  /\ \A r \in Runs : runs[r].pc = "idle"
  /\ nodes # NewGraph.nodes
  /\ SetGraph(NewGraph)
  /\ UNCHANGED <<node_counter, runs, active, rootReturned, add_failed>>

Next ==
  \/ \E r \in Runs, u \in Tenants : StartRun(r, u) /\ Quiet
  \/ \E r \in Runs : \E ideas \in IdeaListsUpTo(Room) : ExtractReturn(r, ideas) /\ Quiet
  \/ \E r \in Runs : SkipIdea(r) /\ Quiet
  \/ \E r \in Runs : SearchAndAwait(r) /\ Quiet
  \/ \E r \in Runs : PlaceUnderRoot(r) /\ Quiet
  \/ \E r \in Runs : \E answer \in OracleAnswers(nodes) : OracleReturn(r, answer) /\ Quiet
  \/ \E r \in Runs : PlaceDecided(r) /\ Quiet
  \/ \E r \in Runs : Finish(r) /\ Quiet
  \/ Reset /\ Quiet

Spec == Init /\ [][Next]_vars

\* ------------------------------------------------- direct GraphManager calls
\* the same store driven call by call, with any parent id and any tenant

\* the guarded root creation of extract_nodes, on its own
CallEnsureRoot(user_id) ==
  /\ nodes' = GetOrCreateRoot(nodes, user_id).nodes
  /\ UNCHANGED <<cluster_centroids, cluster_members, next_cluster_id,
                 node_counter, runs, active, rootReturned, add_failed>>

CallAddNode(embedding, parent_id, user_id) ==
  /\ node_counter < MaxNodes
  /\ LET res == add_node(G, NodeId(node_counter + 1), embedding, parent_id,
                         user_id, user_id)
     IN /\ SetGraph(res.g)
        /\ add_failed' = (add_failed \/ ~res.ok)
        /\ node_counter' = IF res.ok THEN node_counter + 1 ELSE node_counter
  /\ UNCHANGED <<runs, active, rootReturned>>

StoreNext ==
  \/ \E u \in Tenants : CallEnsureRoot(u) /\ Quiet
  \/ \E e \in Embeddings, p \in Ids(nodes) \cup {GhostId}, u \in Tenants :
       CallAddNode(e, p, u) /\ Quiet

StoreSpec == Init /\ [][StoreNext]_vars

\* ------------------------------------------------ get-or-create of the roots
\* the root lookup of extract_nodes called on its own, recording the id it
\* obtained, between placements under the roots

CallGetOrCreateRoot(user_id) ==
  /\ LET rooted == GetOrCreateRoot(nodes, user_id)
     IN /\ nodes' = rooted.nodes
        /\ rootReturned' = [rootReturned EXCEPT
                             ![user_id].ids = @ \cup {rooted.parent_id},
                             ![user_id].calls = Min(@ + 1, 2)]
  /\ UNCHANGED <<cluster_centroids, cluster_members, next_cluster_id,
                 node_counter, runs, active, add_failed>>

\* the whole "no similar nodes" branch: the root is obtained and the node added under it
CallAddUnderRoot(embedding, user_id) ==
  /\ node_counter < MaxNodes
  /\ LET rooted == GetOrCreateRoot(nodes, user_id)
         res == add_node([G EXCEPT !.nodes = rooted.nodes], NodeId(node_counter + 1),
                         embedding, rooted.parent_id, user_id, user_id)
     IN /\ SetGraph(res.g)
        /\ node_counter' = node_counter + 1
  /\ UNCHANGED <<runs, active, rootReturned, add_failed>>

RootNext ==
  \/ \E u \in Tenants : CallGetOrCreateRoot(u) /\ Quiet
  \/ \E e \in Embeddings, u \in Tenants : CallAddUnderRoot(e, u) /\ Quiet

RootSpec == Init /\ [][RootNext]_vars

\* ------------------------------------------- concurrent chunks of one user
\* the requests of one user only, with room for three ideas in all

\* _extract_ideas returns, with the bound of this specification
ExtractReturnWithin(r, ideas, limit) ==
  /\ active = None
  /\ runs[r].pc = "extracting"
  /\ node_counter + Pending + Len(ideas) <= limit
  /\ runs' = [runs EXCEPT ![r].pc = "loop", ![r].ideas = ideas]
  /\ active' = r
  /\ UNCHANGED <<nodes, cluster_centroids, cluster_members, next_cluster_id,
                 node_counter, rootReturned, add_failed>>

SameUser == CHOOSE u \in Users : TRUE

SameUserNext ==
  \/ \E r \in Runs : StartRun(r, SameUser) /\ Quiet
  \/ \E r \in Runs :
       \E ideas \in IdeaListsUpTo(MaxSameUser - node_counter - Pending) :
         ExtractReturnWithin(r, ideas, MaxSameUser) /\ Quiet
  \/ \E r \in Runs : SkipIdea(r) /\ Quiet
  \/ \E r \in Runs : SearchAndAwait(r) /\ Quiet
  \/ \E r \in Runs : PlaceUnderRoot(r) /\ Quiet
  \/ \E r \in Runs : \E answer \in OracleAnswers(nodes) : OracleReturn(r, answer) /\ Quiet
  \/ \E r \in Runs : PlaceDecided(r) /\ Quiet
  \/ \E r \in Runs : Finish(r) /\ Quiet

SameUserSpec == Init /\ [][SameUserNext]_vars

\* ------------------------------------------- concurrent chunks of two users
\* one request at a time for each of two users; the oracle of the first user
\* may stay silent for ever

SlowRun == "r1"

UserOf(r) == IF r = SlowRun THEN "u1" ELSE "u2"

\* an awaited external call of the request returns
Resumes(r) ==
  \/ \E ideas \in IdeaListsUpTo(MaxTwoUsers - node_counter - Pending) :
       ExtractReturnWithin(r, ideas, MaxTwoUsers)
  \/ \E answer \in OracleAnswers(nodes) : OracleReturn(r, answer)

TwoUsersNext ==
  \/ \E r \in Runs : StartRun(r, UserOf(r)) /\ Quiet
  \/ \E r \in Runs :
       \E ideas \in IdeaListsUpTo(MaxTwoUsers - node_counter - Pending) :
         ExtractReturnWithin(r, ideas, MaxTwoUsers) /\ Quiet
  \/ \E r \in Runs : SkipIdea(r) /\ Quiet
  \/ \E r \in Runs : SearchAndAwait(r) /\ Quiet
  \/ \E r \in Runs : PlaceUnderRoot(r) /\ Quiet
  \/ \E r \in Runs : \E answer \in OracleAnswers(nodes) : OracleReturn(r, answer) /\ Quiet
  \/ \E r \in Runs : PlaceDecided(r) /\ Quiet
  \/ \E r \in Runs : Finish(r) /\ Quiet

\* A coroutine that runs on the event loop reaches its next await or its
\* return: the code between two awaits is a loop-free step on one idea (this
\* is weak fairness of the steps taken with active = r, which are enabled
\* exactly while active = r). The event loop resumes every coroutine whose
\* awaited call has returned, and the external calls of every request but
\* the slow one do return.
TwoUsersSpec ==
  /\ Init
  /\ [][TwoUsersNext]_vars
  /\ \A r \in Runs : []<>(active # r)
  /\ \A r \in Runs \ {SlowRun} : SF_vars(Resumes(r) /\ Quiet)

\* ------------------------------------------------- storing and clustering
\* add_node called for one tenant after another, each node under its
\* tenant's root: the graph and the cluster maps grow by one node per call
CallStore(embedding, user_id) ==
  /\ node_counter < MaxStored
  /\ LET rooted == GetOrCreateRoot(nodes, user_id)
         res == add_node([G EXCEPT !.nodes = rooted.nodes], NodeId(node_counter + 1),
                         embedding, rooted.parent_id, user_id, user_id)
     IN /\ SetGraph(res.g)
        /\ node_counter' = node_counter + 1
  /\ UNCHANGED <<runs, active, rootReturned, add_failed>>

ClusterNext ==
  \E e \in Embeddings, u \in Tenants : CallStore(e, u) /\ Quiet

ClusterSpec == Init /\ [][ClusterNext]_vars

\* ------------------------------------------------------- the API boundary
\* extract_nodes as its caller sees it: what each call returns

\* new_graph_nodes are the ids of the nodes the call created; the root of the
\* tenant is included when a new node connects to it
\* faulty variant: only the global root makes a "root" edge
_graph_to_frontend_format_global_root(ns, new_graph_nodes, user_id) ==
  LET root == get_root(ns, user_id)
      connects == /\ root # None
                  /\ \E i \in 1..Len(new_graph_nodes) :
                       get_node(ns, new_graph_nodes[i]).parent_id = root
      EdgeOf(id) == [from_node |-> get_node(ns, id).parent_id, to_node |-> id,
                     type |-> IF get_node(ns, id).parent_id = root_id
                              THEN "root" ELSE "extends"]
  IN [nodes |-> (IF connects THEN <<root>> ELSE <<>>) \o new_graph_nodes,
      edges |-> [i \in 1..Len(new_graph_nodes) |-> EdgeOf(new_graph_nodes[i])]]

_graph_to_frontend_format(ns, new_graph_nodes, user_id) ==
  LET root == get_root(ns, user_id)
      connects == /\ root # None
                  /\ \E i \in 1..Len(new_graph_nodes) :
                       get_node(ns, new_graph_nodes[i]).parent_id = root
      is_root_parent(p) == p = root_id \/ (user_id # None /\ p = UserRootId(user_id))
      EdgeOf(id) == [from_node |-> get_node(ns, id).parent_id, to_node |-> id,
                     type |-> IF is_root_parent(get_node(ns, id).parent_id)
                              THEN "root" ELSE "extends"]
  IN [nodes |-> (IF connects THEN <<root>> ELSE <<>>) \o new_graph_nodes,
      edges |-> [i \in 1..Len(new_graph_nodes) |-> EdgeOf(new_graph_nodes[i])]]

HasFailed(r) == \E f \in delivered.failing : f[1] = r

\* the run met a partial failure that it recovers from
Failed(r, what) ==
  /\ delivered' = [delivered EXCEPT !.failing = @ \cup {<<r, what>>}]
  /\ UNCHANGED <<decided, frontend>>

\* extract_nodes returns its nodes and edges to the caller
Deliver(r) ==
  LET out == _graph_to_frontend_format(nodes, runs[r].new_nodes, runs[r].user_id)
      root == get_root(nodes, runs[r].user_id)
  IN /\ delivered' =
          [roots |-> IF root # None /\ out.nodes # <<>> /\ Head(out.nodes) = root
                     THEN delivered.roots \cup {runs[r].user_id}
                     ELSE delivered.roots,
           failing |-> {f \in delivered.failing : f[1] # r},
           last |-> [status |-> "ok", user_id |-> runs[r].user_id,
                     nodes |-> out.nodes, edges |-> out.edges,
                     after_failure |-> HasFailed(r)],
           announced |-> delivered.announced]
     /\ UNCHANGED <<decided, frontend>>

\* extract_nodes returns its nodes and edges, and the caller keeps them with
\* those of the earlier responses of the tenant
Announce(r) ==
  LET out == _graph_to_frontend_format(nodes, runs[r].new_nodes, runs[r].user_id)
      root == get_root(nodes, runs[r].user_id)
  IN /\ delivered' =
          [roots |-> IF root # None /\ out.nodes # <<>> /\ Head(out.nodes) = root
                     THEN delivered.roots \cup {runs[r].user_id}
                     ELSE delivered.roots,
           failing |-> {f \in delivered.failing : f[1] # r},
           last |-> [status |-> "ok", user_id |-> runs[r].user_id,
                     nodes |-> out.nodes, edges |-> out.edges,
                     after_failure |-> HasFailed(r)],
           announced |-> [delivered.announced EXCEPT
                            ![runs[r].user_id] = [nodes |-> @.nodes \o out.nodes,
                                                  edges |-> @.edges \o out.edges]]]
     /\ UNCHANGED <<decided, frontend>>

\* an exception leaves extract_nodes when the step ended the run without returning
Escaped(r) ==
  IF runs'[r].pc = "idle"
  THEN /\ delivered' = [delivered EXCEPT
                          !.failing = {f \in @ : f[1] # r},
                          !.last = [status |-> "error", user_id |-> runs[r].user_id,
                                    nodes |-> <<>>, edges |-> <<>>,
                                    after_failure |-> TRUE]]
       /\ UNCHANGED <<decided, frontend>>
  ELSE Quiet

\* a graph reset starts the lifetime of the pipeline anew
Forget ==
  /\ delivered' = NothingDelivered
  /\ UNCHANGED <<decided, frontend>>

ApiNext ==
  \/ \E r \in Runs, u \in Tenants : StartRun(r, u) /\ Quiet
  \/ \E r \in Runs : \E ideas \in IdeaListsUpTo(Room) : ExtractReturn(r, ideas) /\ Quiet
  \/ \E r \in Runs : ExtractReturn(r, <<>>) /\ Failed(r, "extraction")
  \/ \E r \in Runs : SkipIdea(r) /\ Failed(r, "embedding")
  \/ \E r \in Runs : SearchAndAwait(r) /\ Quiet
  \/ \E r \in Runs : PlaceUnderRoot(r) /\ Quiet
  \/ \E r \in Runs : \E answer \in OracleAnswers(nodes) :
       OracleReturn(r, answer) /\ (IF answer.ok THEN Quiet ELSE Failed(r, "oracle"))
  \/ \E r \in Runs : PlaceDecided(r) /\ Escaped(r)
  \/ \E r \in Runs : Finish(r) /\ Deliver(r)
  \/ Reset /\ Forget

ApiSpec == Init /\ [][ApiNext]_vars

\* the same requests, with the responses of each tenant accumulated
DiffNext ==
  \/ \E r \in Runs, u \in Tenants : StartRun(r, u) /\ Quiet
  \/ \E r \in Runs : \E ideas \in IdeaListsUpTo(Room) : ExtractReturn(r, ideas) /\ Quiet
  \/ \E r \in Runs : ExtractReturn(r, <<>>) /\ Failed(r, "extraction")
  \/ \E r \in Runs : SkipIdea(r) /\ Failed(r, "embedding")
  \/ \E r \in Runs : SearchAndAwait(r) /\ Quiet
  \/ \E r \in Runs : PlaceUnderRoot(r) /\ Quiet
  \/ \E r \in Runs : \E answer \in OracleAnswers(nodes) :
       OracleReturn(r, answer) /\ (IF answer.ok THEN Quiet ELSE Failed(r, "oracle"))
  \/ \E r \in Runs : PlaceDecided(r) /\ Escaped(r)
  \/ \E r \in Runs : Finish(r) /\ Announce(r)
  \/ Reset /\ Forget

DiffSpec == Init /\ [][DiffNext]_vars

\* ------------------------------------------------ direct placement calls
\* the body of the loop of extract_nodes for one idea, called with every reply
\* the oracle can give; the reply carries the parent_id field of the JSON answer

SuggestingAnswers(ns) ==
  {[ok |-> FALSE, decision |-> "branch", target_node_id |-> None, parent_id |-> None]}
  \cup [ok : {TRUE}, decision : Decisions, target_node_id : Ids(ns) \cup {GhostId},
        parent_id : Ids(ns) \cup {GhostId, None}]

CallPlace(embedding, user_id, answer) ==
  /\ node_counter < MaxNodes
  /\ LET found == find_globally_similar_nodes(nodes, embedding, user_id, TOP_K_DEFAULT)
         similar == [i \in 1..Len(found) |-> found[i].id]
     IN /\ similar # <<>>
        /\ LET d == decide_placement(nodes, similar, user_id, answer)
               res == add_node(G, NodeId(node_counter + 1), embedding, d.parent_id,
                               user_id, user_id)
           IN /\ SetGraph(res.g)
              /\ node_counter' = node_counter + 1
              /\ decided' = [called |-> TRUE, user_id |-> user_id, similar |-> similar,
                             answer |-> answer, parent_id |-> d.parent_id,
                             raised |-> d.raised, inserted |-> res.ok]
  /\ UNCHANGED <<runs, active, rootReturned, add_failed, delivered, frontend>>

DecideNext ==
  \/ \E e \in Embeddings, u \in Tenants : CallAddUnderRoot(e, u) /\ Quiet
  \/ \E e \in Embeddings, u \in Tenants :
       \E answer \in SuggestingAnswers(nodes) : CallPlace(e, u, answer)

DecideSpec == Init /\ [][DecideNext]_vars

\* ========================================================== WebSocketService
Live(s) == sockets[s] \in {"connecting", "open"}

\* connect(): this.socket = new WebSocket(wsUrl), with its four handlers
NewWebSocket ==
  /\ Len(sockets) < MaxSockets
  /\ sockets' = Append(sockets, "connecting")
  /\ socket' = Len(sockets) + 1

\* the application calls connect()
connect ==
  /\ wsSeen.calls < MaxConnectCalls
  /\ NewWebSocket
  /\ wsSeen' = [wsSeen EXCEPT !.disconnected = FALSE, !.calls = @ + 1]
  /\ UNCHANGED <<reconnectAttempts, timers>>

\* socket.onopen
onopen(s) ==
  /\ sockets[s] = "connecting"
  /\ sockets' = [sockets EXCEPT ![s] = "open"]
  /\ reconnectAttempts' = 0
  /\ wsSeen' = [wsSeen EXCEPT !.attempts = 0]
  /\ UNCHANGED <<socket, timers>>

\* the server sends one message to the client: socket.onmessage of every
\* open connection emits it
onmessage ==
  /\ \E s \in 1..Len(sockets) : sockets[s] = "open"
  /\ wsSeen' = [wsSeen EXCEPT
                  !.emitted = Cardinality({s \in 1..Len(sockets) : sockets[s] = "open"})]
  /\ UNCHANGED <<socket, sockets, reconnectAttempts, timers>>

\* socket.onclose: the connection failed, was closed by the server, or
\* close() has completed
onclose(s) ==
  /\ sockets[s] \in {"connecting", "open", "closing"}
  /\ sockets' = [sockets EXCEPT ![s] = "closed"]
  /\ IF reconnectAttempts < maxReconnectAttempts
     THEN /\ reconnectAttempts' = reconnectAttempts + 1
          /\ timers' = [timers EXCEPT ![1000 * (reconnectAttempts + 1)] = @ + 1]
     ELSE UNCHANGED <<reconnectAttempts, timers>>
  /\ UNCHANGED <<socket, wsSeen>>

\* the setTimeout callback of onclose: this.connect()
ontimeout(d) ==
  /\ timers[d] > 0
  /\ timers' = [timers EXCEPT ![d] = @ - 1]
  /\ NewWebSocket
  /\ wsSeen' = [wsSeen EXCEPT !.attempts = @ + 1]
  /\ UNCHANGED reconnectAttempts

\* disconnect()
disconnect ==
  /\ IF socket # NoSocket
     THEN /\ sockets' = [sockets EXCEPT ![socket] = IF Live(socket) THEN "closing" ELSE @]
          /\ socket' = NoSocket
     ELSE UNCHANGED <<socket, sockets>>
  /\ wsSeen' = [wsSeen EXCEPT !.disconnected = TRUE]
  /\ UNCHANGED <<reconnectAttempts, timers>>

SocketNext ==
  \/ connect /\ UNCHANGED <<backend, dashVars, mapVars, bubbleVars>>
  \/ \E s \in 1..Len(sockets) : onopen(s) /\ UNCHANGED <<backend, dashVars, mapVars, bubbleVars>>
  \/ onmessage /\ UNCHANGED <<backend, dashVars, mapVars, bubbleVars>>
  \/ \E s \in 1..Len(sockets) : onclose(s) /\ UNCHANGED <<backend, dashVars, mapVars, bubbleVars>>
  \/ \E d \in Delays : ontimeout(d) /\ UNCHANGED <<backend, dashVars, mapVars, bubbleVars>>
  \/ disconnect /\ UNCHANGED <<backend, dashVars, mapVars, bubbleVars>>

SocketSpec == Init /\ [][SocketNext]_vars

\* ================================================================= Dashboard
\* the nodes a new_nodes message can carry: an id and the rest of the node
DiffNodeIds == {"node_1", "node_2", "node_3"}

DiffNodes == [id : DiffNodeIds, summary : {"first", "second"}]

Diffs == UNION {[1..n -> DiffNodes] : n \in 0..MaxDiffLen}

IdsOf(ns) == {ns[i].id : i \in 1..Len(ns)}

EdgeIds(es) == {<<es[i].from_node, es[i].to_node>> : i \in 1..Len(es)}

\* the loop over updatedNodes: an edge between neighbours, unless its id exists
RECURSIVE ChronologicalEdges(_, _, _)
ChronologicalEdges(updatedNodes, i, existing) ==
  IF i >= Len(updatedNodes) THEN <<>>
  ELSE LET edgeId == <<updatedNodes[i].id, updatedNodes[i + 1].id>>
       IN IF edgeId \in existing
          THEN ChronologicalEdges(updatedNodes, i + 1, existing)
          ELSE <<[from_node |-> edgeId[1], to_node |-> edgeId[2], type |-> "chronological"]>>
                 \o ChronologicalEdges(updatedNodes, i + 1, existing \cup {edgeId})

\* the 'new_nodes' listener: nodes whose id is not yet in the list are appended
handleNodesReceived(data) ==
  LET existingIds == IdsOf(dashboardNodes)
      newNodes == SelectSeq(data, LAMBDA n : n.id \notin existingIds)
      updatedNodes == dashboardNodes \o newNodes
  IN IF newNodes # <<>>
     THEN /\ dashboardNodes' = updatedNodes
          /\ dashboardEdges' =
               IF Len(updatedNodes) > 1
               THEN dashboardEdges \o
                      ChronologicalEdges(updatedNodes, 1, EdgeIds(dashboardEdges))
               ELSE dashboardEdges
     ELSE UNCHANGED <<dashboardNodes, dashboardEdges>>

DashboardNext ==
  \E data \in Diffs :
    handleNodesReceived(data) /\ UNCHANGED <<backend, wsVars, mapVars, bubbleVars>>

DashboardSpec == Init /\ [][DashboardNext]_vars

\* =================================================================== NodeMap
MapNodeIds == {"node_1", "node_2"}

\* the synchronous part of fetchDownwardPath / fetchUpwardPath: the api call
Fetch(nodeId, direction) ==
  pathRequests' = pathRequests \cup {[nodeId |-> nodeId, direction |-> direction]}

clearHighlights ==
  /\ downwardPathNodes' = None
  /\ upwardPathNodes' = None
  /\ clickedNodeId' = None

\* handleNodeClick up to its await
handleNodeClick(nodeId) ==
  IF clickedNodeId = nodeId
  THEN IF clickState = 0
       THEN /\ clickState' = 1
            /\ Fetch(nodeId, "down")
            /\ UNCHANGED <<clickedNodeId, downwardPathNodes, upwardPathNodes>>
       ELSE IF clickState = 1
       THEN /\ clickState' = 2
            /\ Fetch(nodeId, "up")
            /\ UNCHANGED <<clickedNodeId, downwardPathNodes, upwardPathNodes>>
       ELSE /\ clickState' = 0
            /\ clearHighlights
            /\ UNCHANGED pathRequests
  ELSE /\ clickedNodeId' = nodeId
       /\ clickState' = 1
       /\ Fetch(nodeId, "down")
       /\ UNCHANGED <<downwardPathNodes, upwardPathNodes>>

\* the api call returns: the rest of fetchDownwardPath / fetchUpwardPath
PathResponse(request) ==
  /\ request \in pathRequests
  /\ pathRequests' = pathRequests \ {request}
  /\ IF request.direction = "down"
     THEN downwardPathNodes' = request.nodeId /\ upwardPathNodes' = None
     ELSE upwardPathNodes' = request.nodeId /\ downwardPathNodes' = None
  /\ UNCHANGED <<clickedNodeId, clickState>>

\* the api call throws: the catch block logs the error
PathError(request) ==
  /\ request \in pathRequests
  /\ pathRequests' = pathRequests \ {request}
  /\ UNCHANGED <<clickedNodeId, clickState, downwardPathNodes, upwardPathNodes>>

NodeMapNext ==
  \/ \E n \in MapNodeIds :
       handleNodeClick(n) /\ UNCHANGED <<backend, wsVars, dashVars, bubbleVars>>
  \/ \E request \in pathRequests :
       PathResponse(request) /\ UNCHANGED <<backend, wsVars, dashVars, bubbleVars>>
  \/ \E request \in pathRequests :
       PathError(request) /\ UNCHANGED <<backend, wsVars, dashVars, bubbleVars>>

NodeMapSpec == Init /\ [][NodeMapNext]_vars

\* =========================================================== NodeHoverBubble
\* the nodes the pointer can hover over; the root has no summary
BubbleNodeIds == {"node_1", "node_2", "root"}

Outcomes == {"success", "failure", "throws"}

\* the cleanup of the effect: cancelled = true in the closure of its request
Cleanup == {[q EXCEPT !.cancelled = TRUE] : q \in summaryRequests}

\* the fetchSummary effect of a render with this nodeId
Effect(shown, nodeId) ==
  IF nodeId = "root"
  THEN /\ bubble' = [shown EXCEPT !.nodeId = nodeId, !.loading = FALSE]
       /\ summaryRequests' = Cleanup
  ELSE /\ bubble' = [shown EXCEPT !.nodeId = nodeId, !.loading = TRUE, !.error = None]
       /\ summaryRequests' = Cleanup \cup {[nodeId |-> nodeId, cancelled |-> FALSE]}

\* the bubble is rendered for a node: mounted with fresh state, or updated
\* with a new nodeId
Show(nodeId) ==
  /\ IF bubble.mounted
     THEN nodeId # bubble.nodeId /\ Effect(bubble, nodeId)
     ELSE Effect([mounted |-> TRUE, nodeId |-> nodeId, summary |-> None,
                  loading |-> TRUE, error |-> None], nodeId)
  /\ bubbleSeen' = NoAnswer

\* the bubble is unmounted
Hide ==
  /\ bubble.mounted
  /\ bubble' = Unmounted
  /\ summaryRequests' = Cleanup
  /\ bubbleSeen' = NoAnswer

\* faulty variant: the answer is applied whether or not the effect was cleaned up
SummaryResponse_unchecked(request, outcome) ==
  /\ request \in summaryRequests
  /\ summaryRequests' = summaryRequests \ {request}
  /\ bubbleSeen' = [answered |-> TRUE, nodeId |-> request.nodeId]
  /\ bubble' = IF outcome = "success"
               THEN [bubble EXCEPT !.summary = request.nodeId, !.loading = FALSE]
               ELSE [bubble EXCEPT !.error = outcome, !.loading = FALSE]

\* api.getNodeSummary returns or throws: the rest of fetchSummary
SummaryResponse(request, outcome) ==
  /\ request \in summaryRequests
  /\ summaryRequests' = summaryRequests \ {request}
  /\ bubbleSeen' = [answered |-> TRUE, nodeId |-> request.nodeId]
  /\ IF ~request.cancelled
     THEN bubble' = IF outcome = "success"
                    THEN [bubble EXCEPT !.summary = request.nodeId, !.loading = FALSE]
                    ELSE [bubble EXCEPT !.error = outcome, !.loading = FALSE]
     ELSE UNCHANGED bubble

BubbleNext ==
  \/ \E n \in BubbleNodeIds :
       Show(n) /\ UNCHANGED <<backend, wsVars, dashVars, mapVars>>
  \/ Hide /\ UNCHANGED <<backend, wsVars, dashVars, mapVars>>
  \/ \E request \in summaryRequests, outcome \in Outcomes :
       SummaryResponse(request, outcome) /\ UNCHANGED <<backend, wsVars, dashVars, mapVars>>

BubbleSpec == Init /\ [][BubbleNext]_vars

TypeOK ==
  /\ node_counter \in 0..MaxNodes
  /\ active \in Runs \cup {None}

\* ==================================================================== claims
NodeIdxs == 1..Len(nodes)

NonRoots == {i \in NodeIdxs : ~nodes[i].is_root}

Occurrences(xs, x) == Cardinality({k \in 1..Len(xs) : xs[k] = x})

InList(xs, x) == \E k \in 1..Len(xs) : xs[k] = x

IsPrefix(xs, ys) == Len(xs) <= Len(ys) /\ SubSeq(ys, 1, Len(xs)) = xs

RootsOf(t) == {i \in NodeIdxs : nodes[i].is_root /\ nodes[i].owner = t}

\* C1: a similarity search made for tenant T1 never returns a node created for
\* another tenant, whatever the tenants have ingested before.
C1_RankTenantIsolation ==
  /\ \A t \in Users, e \in Embeddings :
       LET found == find_globally_similar_nodes(nodes, e, t, TOP_K_DEFAULT)
       IN \A k \in 1..Len(found) : get_node(nodes, found[k].id).owner = t
  /\ \A r \in Runs :
       runs[r].user_id \in Users =>
         \A k \in 1..Len(runs[r].similar) :
           /\ HasNode(nodes, runs[r].similar[k])
           /\ get_node(nodes, runs[r].similar[k]).owner = runs[r].user_id

C1_Witness ==
  \E t \in Users, e \in Embeddings :
    /\ \E k \in 1..Len(find_globally_similar_nodes(nodes, e, t, TOP_K_DEFAULT)) :
         ~get_node(nodes, find_globally_similar_nodes(nodes, e, t, TOP_K_DEFAULT)[k].id).is_root
    /\ \E i \in NonRoots : nodes[i].owner \in Users \ {t}

\* C2: the node list returned for tenant T1, with its root or without it, never
\* holds a node created for another tenant.
C2_GetAllTenantIsolation ==
  \A t \in Users :
    LET all_nodes == get_all_nodes(nodes, t)
        except_root == get_all_nodes_except_root(nodes, t)
    IN /\ \A k \in 1..Len(all_nodes) : all_nodes[k].owner = t
       /\ \A k \in 1..Len(except_root) : except_root[k].owner = t

C2_Witness ==
  \E t \in Users :
    /\ Len(get_all_nodes(nodes, t)) >= 2
    /\ \E i \in NonRoots : nodes[i].owner \in Users \ {t}

\* C3: the parent of every non-root node exists and was created for the same
\* tenant as the node, so no node hangs under the global root or under another
\* tenant's root or node.
C3_ParentInSameTenant ==
  \A i \in NonRoots :
    /\ HasNode(nodes, nodes[i].parent_id)
    /\ get_node(nodes, nodes[i].parent_id).owner = nodes[i].owner
    /\ get_node(nodes, nodes[i].parent_id).user_id = nodes[i].user_id

C3_Witness ==
  \E i, j \in NonRoots :
    /\ nodes[i].owner \in Users
    /\ nodes[j].parent_id = nodes[i].id
    /\ get_node(nodes, nodes[i].parent_id).is_root

\* C4: after any successful and failed add_node calls, a root has depth 0 and
\* every other node has the depth of its parent plus one.
C4_DepthInvariant ==
  \A i \in NodeIdxs :
    IF nodes[i].is_root
    THEN nodes[i].depth = 0
    ELSE /\ HasNode(nodes, nodes[i].parent_id)
         /\ nodes[i].depth = get_node(nodes, nodes[i].parent_id).depth + 1

C4_Witness ==
  /\ add_failed
  /\ \E i \in NonRoots : nodes[i].depth = 2

\* C5: the id of every non-root node occurs exactly once in the children_ids of
\* its parent.
C5_ChildListedOnce ==
  \A i \in NonRoots :
    /\ HasNode(nodes, nodes[i].parent_id)
    /\ Occurrences(get_node(nodes, nodes[i].parent_id).children_ids, nodes[i].id) = 1

C5_Witness ==
  \E i \in NodeIdxs : Len(nodes[i].children_ids) = 2

\* C6: get-or-create of a tenant's root always returns the same id, the id of
\* an existing root of that tenant; a tenant never has two roots, has exactly one
\* once the call was made, and a call that finds the root changes nothing.
C6_RootInvariant ==
  \A t \in Tenants :
    /\ Cardinality(RootsOf(t)) <= 1
    /\ Cardinality(rootReturned[t].ids) <= 1
    /\ \A id \in rootReturned[t].ids :
         /\ HasNode(nodes, id)
         /\ get_node(nodes, id).is_root
         /\ get_node(nodes, id).owner = t
         /\ Cardinality(RootsOf(t)) = 1

C6_RootCreationIdempotent ==
  /\ []C6_RootInvariant
  /\ [][\A t \in Tenants :
          (rootReturned'[t] # rootReturned[t] /\ RootsOf(t) # {}) => nodes' = nodes]_vars

C6_Witness ==
  \E t \in Users :
    /\ rootReturned[t].calls = 2
    /\ \E i \in RootsOf(t) : nodes[i].children_ids # <<>>
    /\ \E u \in Users \ {t} : rootReturned[u].calls >= 1

\* C7: every step keeps each node in the cluster it was assigned to and keeps
\* every cluster with all its members.
ClusteringKept ==
  /\ \A i \in NodeIdxs :
       nodes[i].cluster_id # NoCluster =>
         /\ HasNode(nodes', nodes[i].id)
         /\ get_node(nodes', nodes[i].id).cluster_id = nodes[i].cluster_id
  /\ \A c \in DOMAIN cluster_members :
       /\ c \in DOMAIN cluster_members'
       /\ c \in DOMAIN cluster_centroids'
       /\ cluster_members[c] # <<>>
       /\ IsPrefix(cluster_members[c], cluster_members'[c])

IsGraphReset ==
  /\ nodes' = NewGraph.nodes
  /\ cluster_centroids' = NewGraph.cc
  /\ cluster_members' = NewGraph.cm
  /\ next_cluster_id' = NewGraph.next

C7_ClusteringMonotonic == [][ClusteringKept]_vars

\* C7 (amended): every step other than a graph reset keeps each node in its
\* cluster and every cluster with all its members; a graph reset removes all
\* nodes and all clusters together.
C7_ClusteringMonotonicUntilReset == [][IsGraphReset \/ ClusteringKept]_vars

C7_Witness ==
  \E c \in DOMAIN cluster_members : Len(cluster_members[c]) >= 2

\* C8: when no run of a tenant is in progress, every non-root node of the tenant
\* is a member of exactly one cluster, once, and carries that cluster's id.
C8_ExactlyOneCluster ==
  \A t \in Tenants :
    (\A r \in Runs : runs[r].pc = "idle" \/ runs[r].user_id # t) =>
      \A i \in NonRoots :
        nodes[i].owner = t =>
          /\ Cardinality({c \in DOMAIN cluster_members :
                            InList(cluster_members[c], nodes[i].id)}) = 1
          /\ nodes[i].cluster_id \in DOMAIN cluster_members
          /\ Occurrences(cluster_members[nodes[i].cluster_id], nodes[i].id) = 1

C8_Witness ==
  /\ \A r \in Runs : runs[r].pc = "idle"
  /\ \E i, j \in NonRoots :
       /\ i # j
       /\ nodes[i].owner = nodes[j].owner
       /\ nodes[i].cluster_id = nodes[j].cluster_id

\* --- decide_placement, observed on the step that places the decided node
DecideStep(r) == runs[r].pc = "deciding" /\ runs'[r] # runs[r]

Placed(r, parent_id) ==
  /\ runs'[r].pc = "loop"
  /\ Len(nodes') = Len(nodes) + 1
  /\ nodes'[Len(nodes')].parent_id = parent_id

MostSimilar(r) == get_node(nodes, runs[r].similar[1])

TenantRoot(t) == nodes[CHOOSE i \in NodeIdxs : nodes[i].is_root /\ nodes[i].owner = t].id

\* the most similar candidate's parent, or the tenant root if that is no node
FallbackChain(r) ==
  IF MostSimilar(r).parent_id # None /\ HasNode(nodes, MostSimilar(r).parent_id)
  THEN MostSimilar(r).parent_id
  ELSE TenantRoot(runs[r].user_id)

InvalidTarget(r) ==
  runs[r].answer.ok /\ ~InList(runs[r].similar, runs[r].answer.target_node_id)

JustDecided(r) == active = r /\ runs[r].pc = "loop" /\ runs[r].similar # <<>>

\* C9: an answer whose target is not a candidate makes decide_placement return
\* the most similar candidate's parent, or the tenant root, without raising.
C9_InvalidTargetFallsBackToParent ==
  [][\A r \in Runs : (DecideStep(r) /\ InvalidTarget(r)) => Placed(r, FallbackChain(r))]_vars

\* C9 (amended): an answer whose target is not a candidate is handled with the
\* most similar candidate as the target: decide_placement returns that
\* candidate's id for continuation and resolution, and for branch its parent, or
\* the tenant root if it has none; it never raises.
C9_InvalidTargetUsesFirstSimilar ==
  [][\A r \in Runs :
       (DecideStep(r) /\ InvalidTarget(r)) =>
          Placed(r, IF runs[r].answer.decision \in {"continuation", "resolution"}
                    THEN MostSimilar(r).id
                    ELSE FallbackChain(r))]_vars

C9_Witness ==
  \E r \in Runs :
    /\ JustDecided(r)
    /\ InvalidTarget(r)
    /\ runs[r].answer.decision = "continuation"
    /\ nodes[Len(nodes)].parent_id = runs[r].similar[1]

\* C10: a failed oracle call does not leave decide_placement as an exception and
\* yields the parent that an answer with an invalid target yields.
C10_FailureSameAsInvalidTarget ==
  [][\A r \in Runs :
       (DecideStep(r) /\ ~runs[r].answer.ok) =>
          \A d \in Decisions :
            Placed(r, decide_placement(nodes, runs[r].similar, runs[r].user_id,
                        [ok |-> TRUE, decision |-> d,
                         target_node_id |-> GhostId]).parent_id)]_vars

\* C10 (amended): a failed oracle call does not leave decide_placement as an
\* exception and yields the most similar candidate's parent, or the tenant root
\* if that candidate has none.
C10_FailureFallsBackToParent ==
  [][\A r \in Runs : (DecideStep(r) /\ ~runs[r].answer.ok) => Placed(r, FallbackChain(r))]_vars

C10_Witness ==
  \E r \in Runs :
    /\ JustDecided(r)
    /\ ~runs[r].answer.ok
    /\ ~get_node(nodes, runs[r].similar[1]).is_root
    /\ nodes[Len(nodes)].parent_id = get_node(nodes, runs[r].similar[1]).parent_id

\* C11: every parent_id that decide_placement returns names a node of the graph
\* when the pipeline inserts under it, so that insert succeeds and the new node
\* is one of the run's nodes.
C11_DecidedParentExists ==
  [][\A r \in Runs :
       DecideStep(r) =>
         /\ runs'[r].pc = "loop"
         /\ Len(nodes') = Len(nodes) + 1
         /\ HasNode(nodes, nodes'[Len(nodes')].parent_id)
         /\ InList(runs'[r].new_nodes, nodes'[Len(nodes')].id)]_vars

\* a branch from a root: the target has no parent and the fallback root is used
C11_Witness ==
  \E r \in Runs :
    /\ JustDecided(r)
    /\ runs[r].answer.ok
    /\ runs[r].answer.decision = "branch"
    /\ InList(runs[r].similar, runs[r].answer.target_node_id)
    /\ get_node(nodes, runs[r].answer.target_node_id).is_root
    /\ InList(runs[r].new_nodes, nodes[Len(nodes)].id)
    /\ nodes[Len(nodes)].parent_id = FallbackRootId(nodes, runs[r].user_id)

\* --- decide_placement, observed on direct calls
ValidTarget == decided.answer.ok /\ InList(decided.similar, decided.answer.target_node_id)

DecidedTarget == get_node(nodes, decided.answer.target_node_id)

\* C12: a reply whose target is a candidate yields the target's id for
\* continuation and resolution and the target's parent for branch (the tenant
\* root when the target has no parent), whatever parent_id the reply suggests.
C12_ParentFixedByDecision ==
  (decided.called /\ ValidTarget) =>
     /\ ~decided.raised
     /\ decided.parent_id =
          IF decided.answer.decision \in {"continuation", "resolution"}
          THEN DecidedTarget.id
          ELSE IF DecidedTarget.parent_id # None
               THEN DecidedTarget.parent_id
               ELSE FallbackRootId(nodes, decided.user_id)

\* a branch from a root-level node whose reply suggested another parent
C12_Witness ==
  /\ decided.called
  /\ ValidTarget
  /\ decided.answer.decision = "branch"
  /\ ~DecidedTarget.is_root
  /\ get_node(nodes, DecidedTarget.parent_id).is_root
  /\ decided.answer.parent_id \notin {None, decided.parent_id}
  /\ HasNode(nodes, decided.answer.parent_id)
  /\ decided.parent_id = DecidedTarget.parent_id

\* --- the "no similar nodes" branch, observed on the step that takes it
NoSimilarStep(r) ==
  /\ active = r
  /\ runs[r].pc = "loop"
  /\ runs[r].ideas # <<>>
  /\ Head(runs[r].ideas) # EmbedError
  /\ Similar(r) = <<>>
  /\ runs'[r] # runs[r]

\* C13: when the search returns nothing, the node is placed under the root of
\* the run's tenant: that root is in the graph after the step, created by the
\* step if the tenant had none, and it is a root created for that tenant.
C13_EmptySimilarGivesTenantRoot ==
  [][\A r \in Runs :
       NoSimilarStep(r) =>
         LET new == nodes'[Len(nodes')]
             had_root == RootsOf(runs[r].user_id) # {}
         IN /\ Len(nodes') = IF had_root THEN Len(nodes) + 1 ELSE Len(nodes) + 2
            /\ ~new.is_root
            /\ new.depth = 1
            /\ HasNode(nodes', new.parent_id)
            /\ get_node(nodes', new.parent_id).is_root
            /\ get_node(nodes', new.parent_id).owner = runs[r].user_id
            /\ had_root => HasNode(nodes, new.parent_id)]_vars

\* a user's first node: the root was created and the node placed under it
C13_Witness ==
  \E r \in Runs :
    /\ active = r
    /\ runs[r].pc = "loop"
    /\ runs[r].user_id \in Users
    /\ runs[r].similar = <<>>
    /\ runs[r].new_nodes # <<>>
    /\ Len(nodes) >= 3
    /\ nodes[Len(nodes)].id = runs[r].new_nodes[Len(runs[r].new_nodes)]
    /\ nodes[Len(nodes) - 1].is_root
    /\ nodes[Len(nodes) - 1].owner = runs[r].user_id
    /\ nodes[Len(nodes)].parent_id = nodes[Len(nodes) - 1].id

\* --- the end of an extract_nodes call, observed on the step that ends it
Ends(r) == runs[r].pc # "idle" /\ runs'[r].pc = "idle"

\* C14: no call of extract_nodes ends with an exception: a call ends only by
\* returning after its last idea, whatever failed on the way (extraction,
\* embedding, oracle), and the response holds exactly the nodes the call
\* created, after the tenant's root when it is included, with one edge into
\* each of them; with no node created both lists are empty.
C14_ProcessNeverRaises ==
  /\ [](delivered.last.status # "error")
  /\ [][\A r \in Runs :
          Ends(r) =>
            LET resp == delivered'.last
                made == runs[r].new_nodes
                k == Len(resp.nodes) - Len(made)
            IN /\ runs[r].pc = "loop"
               /\ runs[r].ideas = <<>>
               /\ resp.status = "ok"
               /\ resp.user_id = runs[r].user_id
               /\ resp.after_failure = HasFailed(r)
               /\ k \in {0, 1}
               /\ k = 1 => get_node(nodes, resp.nodes[1]).is_root
               /\ SubSeq(resp.nodes, k + 1, Len(resp.nodes)) = made
               /\ \A i \in 1..Len(made) : HasNode(nodes, made[i])
               /\ Len(resp.edges) = Len(made)
               /\ \A i \in 1..Len(made) : resp.edges[i].to_node = made[i]
               /\ made = <<>> => resp.nodes = <<>> /\ resp.edges = <<>>]_vars

\* a call that met a failure has returned the node it still produced
C14_Witness ==
  /\ delivered.last.status = "ok"
  /\ delivered.last.after_failure
  /\ delivered.last.nodes # <<>>
  /\ delivered.last.edges # <<>>

\* --- the per-idea loop of extract_nodes, observed on the step that consumes
\* an idea of run r
IdeaStep(r) ==
  /\ runs[r].pc \in {"loop", "deciding"}
  /\ runs[r].ideas # <<>>
  /\ runs'[r].ideas # runs[r].ideas

HoldsFirstInsertion(made, u) ==
  LET own == {i \in NonRoots : nodes[i].user_id = u}
  IN /\ own # {}
     /\ InList(made, nodes[CHOOSE i \in own : \A j \in own : i <= j].id)

\* C16: a user's root is in the response of the call that made the user's
\* first node, and in no other response: a call that returns announces the
\* root exactly when it holds that first insertion, and never after the
\* root was announced before.
C16_RootAnnouncedOnce ==
  [][\A r \in Runs :
       (Ends(r) /\ runs[r].user_id \in Users) =>
         LET u == runs[r].user_id
             resp == delivered'.last
             announced == InList(resp.nodes, UserRootId(u))
         IN /\ announced <=> HoldsFirstInsertion(runs[r].new_nodes, u)
            /\ announced => u \notin delivered.roots]_vars

\* --- the search made for the next idea of a call
Searching(r) ==
  /\ active = r
  /\ runs[r].pc = "loop"
  /\ runs[r].ideas # <<>>
  /\ Head(runs[r].ideas) # EmbedError

\* C17: when a call searches for its next idea, every node it has created
\* for its earlier ideas is stored and is among the nodes searched; the
\* search returns it unless TOP_K_DEFAULT more similar nodes fill the result.
\* The candidates handed to the oracle are this search's result.
C17_LaterIdeaSeesEarlierNodes ==
  /\ [](\A r \in Runs :
          Searching(r) =>
            \A i \in 1..Len(runs[r].new_nodes) :
              /\ HasNode(nodes, runs[r].new_nodes[i])
              /\ \/ InList(Similar(r), runs[r].new_nodes[i])
                 \/ Len(Similar(r)) = TOP_K_DEFAULT)
  /\ [][\A r \in Runs :
          (Searching(r) /\ runs'[r].pc = "awaiting_oracle")
            => runs'[r].similar = Similar(r)]_vars

\* the second idea of a chunk was placed under the node of the first
C17_Witness ==
  \E r \in Runs :
    /\ runs[r].pc = "loop"
    /\ Len(runs[r].new_nodes) = 2
    /\ HasNode(nodes, runs[r].new_nodes[2])
    /\ get_node(nodes, runs[r].new_nodes[2]).parent_id = runs[r].new_nodes[1]
    /\ InList(runs[r].similar, runs[r].new_nodes[1])

\* C18: add_node stores a node only under a parent that exists and belongs to
\* the node's own tenant: every step that stores an idea node finds its
\* parent in the graph before the step, owned by the tenant the node is
\* stored for.
C18_InsertRejectsForeignParent ==
  [][(Len(nodes') = Len(nodes) + 1 /\ ~nodes'[Len(nodes')].is_root) =>
       LET new == nodes'[Len(nodes')]
       IN /\ HasNode(nodes, new.parent_id)
          /\ get_node(nodes, new.parent_id).owner = new.owner]_vars

\* --- parent/child relations across one step
\* the idea nodes the step has added
Inserted == {j \in (Len(nodes) + 1)..Len(nodes') : ~nodes'[j].is_root}

\* the children list node i had before the step
ChildrenBefore(i) == IF i <= Len(nodes) THEN nodes[i].children_ids ELSE <<>>

\* no node loses or changes its parent; a children list changes only by
\* gaining the id of the one node add_node stored in this step under it
RelationsSetByInsertOnly ==
  /\ Len(nodes') >= Len(nodes)
  /\ Cardinality(Inserted) <= 1
  /\ \A i \in 1..Len(nodes) :
       /\ nodes'[i].id = nodes[i].id
       /\ nodes'[i].parent_id = nodes[i].parent_id
  /\ \A j \in (Len(nodes) + 1)..Len(nodes') :
       IF j \in Inserted
       THEN HasNode(nodes', nodes'[j].parent_id)
       ELSE nodes'[j].parent_id = None
  /\ \A i \in 1..Len(nodes') :
       nodes'[i].children_ids =
         IF \E j \in Inserted : nodes'[j].parent_id = nodes'[i].id
         THEN Append(ChildrenBefore(i),
                     nodes'[CHOOSE j \in Inserted : nodes'[j].parent_id = nodes'[i].id].id)
         ELSE ChildrenBefore(i)

Stores(r) == IdeaStep(r) /\ Head(runs[r].ideas) # EmbedError

\* what a stored node is: everything but its children list and its cluster
Identity(node) ==
  [id |-> node.id, user_id |-> node.user_id, owner |-> node.owner,
   is_root |-> node.is_root, embedding |-> node.embedding,
   parent_id |-> node.parent_id, depth |-> node.depth]

\* C20: no two stored nodes, roots included and whatever their tenants, have
\* the same id, and a step that stores a new node gives it a place of its
\* own: the graph grows and every node stored before is still what it was.
C20_NodeIdsGloballyUnique ==
  /\ [](\A i, j \in NodeIdxs : nodes[i].id = nodes[j].id => i = j)
  /\ [][\A r \in Runs :
          Stores(r) =>
            /\ Len(nodes') > Len(nodes)
            /\ ~HasNode(nodes, nodes'[Len(nodes')].id)
            /\ \A i \in NodeIdxs : Identity(nodes'[i]) = Identity(nodes[i])]_vars

\* two users and the unscoped tenant's root side by side, each user with a
\* root and a node of its own
C20_Witness ==
  \E i, j \in NonRoots :
    /\ nodes[i].user_id \in Users
    /\ nodes[j].user_id \in Users
    /\ nodes[i].user_id # nodes[j].user_id
    /\ HasNode(nodes, UserRootId(nodes[i].user_id))
    /\ HasNode(nodes, UserRootId(nodes[j].user_id))
    /\ HasNode(nodes, root_id)

\* C21: the node list returned when no user is given holds only nodes that
\* were created without a user: no node of any user is in it.
C21_UnscopedGetAllHoldsNoTenantNode ==
  LET all_nodes == get_all_nodes(nodes, None)
  IN \A k \in 1..Len(all_nodes) :
       /\ all_nodes[k].owner = None
       /\ all_nodes[k].user_id = None

\* --- the similarity search on the stored graph, for every tenant, every
\* candidate embedding and every k up to the default
SimEqual(x, y) == ~SimGreater(x, y) /\ ~SimGreater(y, x)

\* node a ranks before node b for the embedding: more similar, or as similar
\* and stored earlier
RanksBefore(a, b, embedding) ==
  LET sa == cosine_similarity(embedding, get_node(nodes, a).embedding)
      sb == cosine_similarity(embedding, get_node(nodes, b).embedding)
  IN \/ SimGreater(sa, sb)
     \/ SimEqual(sa, sb) /\ IndexOf(nodes, a) < IndexOf(nodes, b)

Searches == Tenants \X Embeddings \X (1..TOP_K_DEFAULT)

IdeaNodesOf(t) == {i \in NonRoots : nodes[i].user_id = t}

\* C23: a user's search returns min(k, n) entries, n being the number of idea
\* nodes stored for that user: all n when k > n, none when n = 0, and with the
\* default k at most TOP_K_DEFAULT.
C23_RankReturnsMinKN ==
  \A q \in Searches :
    q[1] \in Users =>
      Len(find_globally_similar_nodes(nodes, q[2], q[1], q[3]))
        = Min(q[3], Cardinality(IdeaNodesOf(q[1])))

\* C24: no search returns a root, the global one or a user's, and no root is
\* a member of a cluster or carries a cluster id.
C24_RootsNotSearchedNorClustered ==
  /\ \A q \in Searches :
       LET found == find_globally_similar_nodes(nodes, q[2], q[1], q[3])
       IN \A i \in 1..Len(found) : ~get_node(nodes, found[i].id).is_root
  /\ \A i \in NodeIdxs :
       nodes[i].is_root =>
         /\ nodes[i].cluster_id = NoCluster
         /\ \A c \in DOMAIN cluster_members : ~InList(cluster_members[c], nodes[i].id)

\* --- cluster assignment, observed on the step that stores a node
\* the step stores one idea node, the last of nodes'
StoresNode == Len(nodes') > Len(nodes) /\ ~nodes'[Len(nodes')].is_root

\* the clusters that hold a node of tenant t
ClustersOf(t) ==
  {c \in DOMAIN cluster_members :
     \E k \in 1..Len(cluster_members[c]) :
       get_node(nodes, cluster_members[c][k]).user_id = t}

SimilarityTo(c, embedding) == cosine_similarity(embedding, cluster_centroids[c].num)

\* c is the cluster of cs most similar to the embedding, the lowest id among
\* the most similar ones
BestOf(cs, c, embedding) ==
  /\ c \in cs
  /\ \A d \in cs : ~SimGreater(SimilarityTo(d, embedding), SimilarityTo(c, embedding))
  /\ \A d \in cs : SimEqual(SimilarityTo(d, embedding), SimilarityTo(c, embedding)) => c <= d

ClustersKept(cs) ==
  \A c \in cs : /\ c \in DOMAIN cluster_members'
                 /\ cluster_members'[c] = cluster_members[c]
                 /\ cluster_centroids'[c] = cluster_centroids[c]

\* C25: when the tenant of the new node already has clusters, the node joins
\* the tenant's best-matching cluster and no cluster is created if that
\* cluster's similarity reaches the threshold; otherwise a new cluster is
\* created with the node as its only member and the node's embedding as its
\* centroid, and every existing cluster stays as it was.
C25_JoinAtThresholdElseNewCluster ==
  [][(/\ StoresNode
      /\ nodes'[Len(nodes')].user_id \in Users
      /\ ClustersOf(nodes'[Len(nodes')].user_id) # {}) =>
       LET new == nodes'[Len(nodes')]
           own == ClustersOf(new.user_id)
           best == CHOOSE c \in own : BestOf(own, c, new.embedding)
       IN IF SimAtLeastThreshold(SimilarityTo(best, new.embedding))
          THEN /\ new.cluster_id = best
               /\ DOMAIN cluster_members' = DOMAIN cluster_members
               /\ next_cluster_id' = next_cluster_id
               /\ cluster_members'[best] = Append(cluster_members[best], new.id)
               /\ ClustersKept(DOMAIN cluster_members \ {best})
          ELSE /\ new.cluster_id = next_cluster_id
               /\ new.cluster_id \notin DOMAIN cluster_members
               /\ next_cluster_id' = next_cluster_id + 1
               /\ cluster_members'[new.cluster_id] = <<new.id>>
               /\ cluster_centroids'[new.cluster_id] = Centroid(new.embedding)
               /\ ClustersKept(DOMAIN cluster_members)]_vars

\* the clusters of tenant t in the order of their creation: the cluster ids
\* of the tenant's idea nodes in storage order, first occurrences only
RECURSIVE FirstOccurrences(_)
FirstOccurrences(xs) ==
  IF xs = <<>> THEN <<>>
  ELSE LET front == FirstOccurrences(SubSeq(xs, 1, Len(xs) - 1))
       IN IF InList(front, xs[Len(xs)]) THEN front ELSE Append(front, xs[Len(xs)])

ClusterIdsOf(t) ==
  LET own == SelectSeq(nodes, LAMBDA node : ~node.is_root /\ node.user_id = t)
  IN FirstOccurrences([i \in 1..Len(own) |-> own[i].cluster_id])

\* C26: for every user the clusters of the user's nodes are numbered 0, 1,
\* 2, ... in the order of their creation, whatever clusters other tenants
\* have: the first cluster a user's node gets has id 0.
C26_ClusterIdsPerTenant ==
  \A t \in Users :
    \A i \in 1..Len(ClusterIdsOf(t)) : ClusterIdsOf(t)[i] = i - 1

BeforeAssign ==
  LET new == nodes'[Len(nodes')]
  IN create_and_link(GetOrCreateRoot(nodes, new.user_id).nodes, new.id,
                     new.embedding, new.parent_id, new.user_id, new.owner)

\* what the cluster assignment returns for it
AfterAssign ==
  LET new == nodes'[Len(nodes')]
  IN assign_cluster([G EXCEPT !.nodes = BeforeAssign], new.id, new.embedding)

\* C28 as stated: the cluster assignment leaves every stored node as it is.
C28_AssignTouchesNoStoredNode ==
  [][StoresNode => (nodes' = AfterAssign.nodes /\ AfterAssign.nodes = BeforeAssign)]_vars

\* C28 amended: apart from the cluster maps and the next cluster id, the
\* cluster assignment changes only the cluster id kept with the node it
\* assigns: every other node, and that node's parent, children and depth,
\* stay as add_node stored them.
C28_AssignOnlyStampsClusterId ==
  [][StoresNode =>
       LET new == nodes'[Len(nodes')]
           after == AfterAssign.nodes
       IN /\ nodes' = after
          /\ Len(after) = Len(BeforeAssign)
          /\ \A i \in 1..Len(after) :
               IF after[i].id = new.id
               THEN /\ [after[i] EXCEPT !.cluster_id = NoCluster] = BeforeAssign[i]
                    /\ after[i].cluster_id \in DOMAIN cluster_members'
               ELSE after[i] = BeforeAssign[i]]_vars

\* a node that joined an existing cluster: its cluster id was set while its
\* parent already listed it
C28_Witness ==
  \E c \in DOMAIN cluster_members :
    /\ Len(cluster_members[c]) >= 2
    /\ LET n == get_node(nodes, cluster_members[c][2])
       IN /\ n.cluster_id = c
          /\ n.depth = 1
          /\ InList(get_node(nodes, n.parent_id).children_ids, n.id)

\* --- concurrent calls of one user
\* the call has stored a node and has not returned
MidWay(r) == runs[r].pc # "idle" /\ runs[r].new_nodes # <<>>

\* C29: the calls of one user are serialized: while a call that has stored a
\* node has not returned, no other call of the same user stores a node (or
\* creates the root, or assigns a cluster, which happen in the same step).
C29_SameTenantRunsSerialized ==
  [][\A r \in Runs :
       Stores(r) =>
         \A other \in Runs \ {r} :
           runs[other].user_id = runs[r].user_id => ~MidWay(other)]_vars

\* --- tenants side by side
\* the cluster ids the nodes of own get when they are stored, in this order,
\* in a graph that holds nothing else
RECURSIVE ClusteredAlone(_)
ClusteredAlone(own) ==
  IF own = <<>>
  THEN [nodes |-> <<>>, cc |-> <<>>, cm |-> <<>>, next |-> 0]
  ELSE LET before == ClusteredAlone(SubSeq(own, 1, Len(own) - 1))
           node == own[Len(own)]
       IN assign_cluster([before EXCEPT !.nodes = Append(@, node)],
                         node.id, node.embedding)

OwnNodes(t) == SelectSeq(nodes, LAMBDA node : ~node.is_root /\ node.user_id = t)

\* C30: what a user obtains does not depend on what other tenants do. A
\* consequence that a single run can show: the cluster id of every node of a
\* user is the one the node gets when the nodes of that user are the only
\* nodes ever stored.
C30_ClusterIdsAsIfAlone ==
  \A t \in Users :
    LET own == OwnNodes(t)
        alone == ClusteredAlone(own).nodes
    IN \A i \in 1..Len(own) : own[i].cluster_id = alone[i].cluster_id

\* --- external calls
Waiting(r) == runs[r].pc \in {"extracting", "awaiting_oracle"}

\* a node is stored for an idea that has similar nodes only once the oracle
\* call of that idea has returned
StoresAfterCalls ==
  \A r \in Runs :
    Stores(r) =>
      /\ ~Waiting(r)
      /\ Similar(r) # <<>> => runs[r].pc = "deciding"

Edges == {delivered.last.edges[i] : i \in 1..Len(delivered.last.edges)}

\* the node is the global root or the root of the tenant t
IsRootFor(node, t) == node.is_root /\ node.user_id \in {None, t}

\* C32: every edge of a response goes from the parent of a stored node to
\* that node, and it is a "root" edge exactly when the parent is the global
\* root or the root of the tenant of the request, an "extends" edge
\* otherwise.
C32_EdgeFromParentTypedByRoot ==
  \A e \in Edges :
    /\ HasNode(nodes, e.to_node)
    /\ e.from_node = get_node(nodes, e.to_node).parent_id
    /\ HasNode(nodes, e.from_node)
    /\ e.type = IF IsRootFor(get_node(nodes, e.from_node), delivered.last.user_id)
                THEN "root" ELSE "extends"

\* a response of a user with an edge from the user's root and an edge from
\* an idea node
C32_Witness ==
  /\ delivered.last.user_id \in Users
  /\ \E e \in Edges : e.type = "root" /\ e.from_node = UserRootId(delivered.last.user_id)
  /\ \E e \in Edges : e.type = "extends"

\* --- centroids
\* the sum of the k-th components of the embeddings of the nodes ids
RECURSIVE SumOfEmbeddings(_, _)
SumOfEmbeddings(ids, k) ==
  IF ids = <<>> THEN 0
  ELSE get_node(nodes, Head(ids)).embedding[k] + SumOfEmbeddings(Tail(ids), k)

\* C33: the centroid of every cluster is the arithmetic mean of the
\* embeddings of its members: centroid * n = sum of the n embeddings, in
\* each component (the centroid is the exact fraction num / den).
C33_CentroidIsMeanOfMembers ==
  \A c \in DOMAIN cluster_centroids :
    LET members == cluster_members[c]
        n == Len(members)
    IN /\ n >= 1
       /\ \A k \in 1..2 :
            cluster_centroids[c].num[k] * n =
              SumOfEmbeddings(members, k) * cluster_centroids[c].den

\* a cluster that three nodes with different embeddings have joined in turn
C33_Witness ==
  \E c \in DOMAIN cluster_centroids :
    /\ Len(cluster_members[c]) = 3
    /\ \E i, j \in 1..3 :
         get_node(nodes, cluster_members[c][i]).embedding #
           get_node(nodes, cluster_members[c][j]).embedding

\* --- diffs and full state
\* what GET /api/graph/state gives for the tenant: the tenant's nodes, root
\* included, and an edge to every node from its parent
FullNodes(t) ==
  LET all == get_all_nodes(nodes, t) IN {all[i].id : i \in 1..Len(all)}

FullEdges(t) ==
  LET all == get_all_nodes(nodes, t)
  IN {<<all[i].parent_id, all[i].id>> : i \in {j \in 1..Len(all) : all[j].parent_id # None}}

AnnouncedEdges(t) ==
  LET es == delivered.announced[t].edges
  IN {<<es[i].from_node, es[i].to_node>> : i \in 1..Len(es)}

\* C34: when no call is in progress, the nodes and edges of all the
\* responses a user with an idea node has received are those of the user's
\* full graph, root included: none is missing, none is foreign, and no node
\* was announced twice.
C34_DiffsAddUpToFullState ==
  (\A r \in Runs : runs[r].pc = "idle") =>
    \A t \in Users :
      IdeaNodesOf(t) # {} =>
        LET ann == delivered.announced[t].nodes
        IN /\ {ann[i] : i \in 1..Len(ann)} = FullNodes(t)
           /\ \A i, j \in 1..Len(ann) : ann[i] = ann[j] => i = j
           /\ AnnouncedEdges(t) = FullEdges(t)

\* --- WebSocketService
Scheduled == \E d \in Delays : timers'[d] > timers[d]

Created == Len(sockets') > Len(sockets)

\* C35: once disconnect() has been called, the service creates no WebSocket
\* and schedules no reconnect until the application calls connect() again.
C35_NoReconnectAfterDisconnect ==
  [][(wsSeen.disconnected /\ wsSeen'.disconnected) => (~Created /\ ~Scheduled)]_vars

Opened == \E s \in 1..Len(sockets) : sockets[s] = "connecting" /\ sockets'[s] = "open"

\* the counter is bounded; a close schedules the n-th consecutive attempt
\* 1000 * n ms later, and none after the fifth; only an open resets it
CounterBounded ==
  /\ reconnectAttempts' <= maxReconnectAttempts
  /\ Scheduled =>
       /\ reconnectAttempts' = reconnectAttempts + 1
       /\ timers'[1000 * reconnectAttempts'] = timers[1000 * reconnectAttempts'] + 1
  /\ reconnectAttempts = maxReconnectAttempts => ~Scheduled
  /\ reconnectAttempts' < reconnectAttempts => (reconnectAttempts' = 0 /\ Opened)

\* C36: reconnection is bounded: the reconnect timers make at most
\* maxReconnectAttempts calls of connect() between two opens, the counter
\* never exceeds maxReconnectAttempts, the n-th consecutive attempt is
\* scheduled 1000 * n ms after the close and none after the fifth, and only
\* an open sets the counter back to 0.
C36_ReconnectBounded ==
  /\ [](wsSeen.attempts <= maxReconnectAttempts)
  /\ [][CounterBounded]_vars

\* C37: at most one WebSocket of the service is connecting or open at any
\* time, and a message of the server is emitted to the listeners once.
C37_OneLiveSocket ==
  /\ Cardinality({s \in 1..Len(sockets) : Live(s)}) <= 1
  /\ wsSeen.emitted <= 1

\* --- Dashboard
\* C38: after any messages, the node list of the Dashboard holds no id
\* twice, and a message leaves the nodes already in the list as they are and
\* where they are: the old list is a prefix of the new one.
C38_NodeListWithoutDuplicates ==
  /\ [](\A i, j \in 1..Len(dashboardNodes) :
          dashboardNodes[i].id = dashboardNodes[j].id => i = j)
  /\ [][IsPrefix(dashboardNodes, dashboardNodes')]_vars

\* --- NodeMap
\* the request that the last click has made
OfLastClick(request) ==
  /\ request.nodeId = clickedNodeId
  /\ request.direction = (IF clickState = 1 THEN "down"
                          ELSE IF clickState = 2 THEN "up" ELSE "none")

\* C39: the highlighted path belongs to the node clicked last and to its
\* click state: the answer to a path request sets or replaces the highlight
\* only if it is the request of the last click, not after a later click
\* and not after the highlights were cleared.
C39_HighlightOfLastClick ==
  [][\A request \in pathRequests :
       (/\ request \notin pathRequests'
        /\ <<downwardPathNodes, upwardPathNodes>>' # <<downwardPathNodes, upwardPathNodes>>)
         => OfLastClick(request)]_vars

\* --- NodeHoverBubble
\* C40: the answer (or error) to a summary request changes the summary,
\* the error or the loading state of the bubble only when the bubble is
\* mounted and shows the node the request was made for.
C40_NoStaleSummary ==
  [][(bubbleSeen'.answered /\ bubble' # bubble) =>
       (bubble.mounted /\ bubbleSeen'.nodeId = bubble.nodeId)]_vars

\* the answer to a request made for another node has just arrived at a
\* bubble that shows a node and waits for that node's summary
C40_Witness ==
  /\ bubbleSeen.answered
  /\ bubble.mounted
  /\ bubbleSeen.nodeId # bubble.nodeId
  /\ bubble.loading
====
